---- MODULE Spec2Model ----
(***************************************************************************)
(* Entra ID -> XoneCloud synchronisation scripts (xone-sync.py and its     *)
(* variants).  Strings are sequences of one-character strings, so that     *)
(* stripping, truncation, splitting and substring search are computed      *)
(* character by character as the Python code computes them.                *)
(*                                                                         *)
(* Spec      transform_collaborators, one loop iteration at a time         *)
(* SpecDept  transform_to_departments, one loop iteration at a time        *)
(* SpecSend  send_collaborators_to_api, one HTTP call at a time            *)
(* SpecDispatch  either dispatcher, one HTTP call at a time                *)
(* SpecToken get_access_token, one token request at a time                 *)
(* SpecFetch either paginated directory read, one page request at a time   *)
(* SpecMain  main of xone-sync.py, calling the routines above              *)
(* SpecAzure main of xone-sync.-azure.py, calling that script's routines   *)
(* SpecSharing  transform_collaborators on many users of one username      *)
(* SpecClean  the script xone-sync-departamento-clean.py                   *)
(***************************************************************************)
EXTENDS Integers, Sequences, FiniteSets, TLC

VARIABLES
    flow,                        \* which routine the run executes
    pc,                          \* position inside that routine
    \* ---- transform_collaborators
    users_msgraph,               \* input list of directory users
    exclude_service_accounts,    \* keyword argument
    exclude_without_department,  \* keyword argument
    i,                           \* index of the user the for loop is at
    username, base, suffix,      \* locals of the loop body
    seen_usernames,              \* set of reserved usernames
    out,                         \* list of emitted records
    raw, norm,                   \* argument and result of the last normalize_username call
    \* ---- transform_to_departments
    users,                       \* input list of directory users (manager expanded)
    departments,                 \* dict name -> entry, in insertion order
    \* ---- send_collaborators_to_api
    users_data,                  \* input list of collaborator records
    dry_run,                     \* keyword argument
    XONE_API_TOKEN,              \* TRUE when the environment supplies the token
    idx,                         \* loop variable of the batched dispatch
    posts,                       \* payloads posted so far, in call order
    successful, failed, errors,  \* accumulators of the batched dispatch
    result,                      \* value returned (or exception raised)
    \* ---- send_departments_to_api
    dept_posts,                  \* envelopes posted so far, in call order
    \* ---- get_access_token
    TENANT_ID, CLIENT_ID, CLIENT_SECRET,  \* TRUE when the environment supplies it
    token_posts,                 \* outcomes of the token requests so far
    last_err,                    \* local of the retry loop
    \* ---- fetch_all_users / fetch_users_with_manager
    graph_pages,                 \* the pages the directory serves; a url is an index
    only_enabled,                \* keyword argument of fetch_all_users
    url,                         \* << >> for None, <<k>> for the url of page k
    all_users,                   \* records collected so far (users in fetch_all_users)
    gets,                        \* page requests so far, in call order
    \* ---- main
    program,                     \* the script whose main runs
    config,                      \* the behaviour flags at the top of the script
    main_pc,                     \* the call main is at
    token                        \* local of main

vars == <<flow, pc, users_msgraph, exclude_service_accounts,
          exclude_without_department, i, username, base, suffix,
          seen_usernames, out, raw, norm, users, departments, users_data,
          dry_run, XONE_API_TOKEN, idx, posts, successful, failed, errors,
          result, dept_posts, TENANT_ID, CLIENT_ID, CLIENT_SECRET,
          token_posts, last_err, graph_pages, only_enabled, url, all_users,
          gets, program, config, main_pc, token>>

collabVars == <<users_msgraph, exclude_service_accounts,
                exclude_without_department, i, username, base, suffix,
                seen_usernames, out, raw, norm>>
deptVars == <<users, departments>>
sendVars == <<users_data, dry_run, XONE_API_TOKEN, idx, posts, successful,
              failed, errors, result>>
tokenVars == <<TENANT_ID, CLIENT_ID, CLIENT_SECRET, token_posts, last_err>>
fetchVars == <<graph_pages, only_enabled, url, all_users, gets>>
mainVars == <<program, config, main_pc, token>>
netVars == <<dept_posts, tokenVars, fetchVars, mainVars>>

\* the variables of the routines a run has not entered yet
NetIdle ==
    /\ dept_posts = << >>
    /\ TENANT_ID = TRUE
    /\ CLIENT_ID = TRUE
    /\ CLIENT_SECRET = TRUE
    /\ token_posts = << >>
    /\ last_err = "None"
    /\ graph_pages = << >>
    /\ only_enabled = FALSE
    /\ url = << >>
    /\ all_users = << >>
    /\ gets = << >>
    /\ program = "xone-sync.py"
    /\ config = << >>
    /\ main_pc = "none"
    /\ token = << >>

(***************************************************************************)
(* Bounds of the model.                                                    *)
(***************************************************************************)
\* longest input list of transform_collaborators / transform_to_departments
MaxUsers == 3
\* longest input list of send_collaborators_to_api
MaxSend == 5
\* COLLAB_BATCH_SIZE of xone-sync.py:33 is 5000; the model scales it down so
\* that lists longer than one batch, and longer than two, are enumerable.
COLLAB_BATCH_SIZE == 2
\* the collision loop of transform_collaborators has no limit of its own; the
\* model follows it up to this suffix
MaxSuffix == 120

(***************************************************************************)
(* Python string primitives.                                               *)
(***************************************************************************)
Min(a, b) == IF a <= b THEN a ELSE b

\* s[:n]
Take(s, n) == SubSeq(s, 1, Min(n, Len(s)))

\* sub in s
Contains(s, sub) ==
    \E k \in 1..(Len(s) - Len(sub) + 1) : SubSeq(s, k, k + Len(sub) - 1) = sub

UpperChars == <<"A","B","C","D","E","F","G","H","I","J","K","L","M",
                "N","O","P","Q","R","S","T","U","V","W","X","Y","Z">>
LowerChars == <<"a","b","c","d","e","f","g","h","i","j","k","l","m",
                "n","o","p","q","r","s","t","u","v","w","x","y","z">>
DigitChars == <<"0","1","2","3","4","5","6","7","8","9">>
Whitespace == {" "}

Range(s) == {s[k] : k \in 1..Len(s)}

LowerOf ==
    [c \in Range(UpperChars) |->
        LowerChars[CHOOSE k \in 1..Len(UpperChars) : UpperChars[k] = c]]

LowerChar(c) == IF c \in DOMAIN LowerOf THEN LowerOf[c] ELSE c

\* s.lower()
Lower(s) == [k \in 1..Len(s) |-> LowerChar(s[k])]

\* s.strip()
Strip(s) ==
    LET keep == {k \in 1..Len(s) : s[k] \notin Whitespace}
    IN  IF keep = {} THEN << >>
        ELSE SubSeq(s, CHOOSE k \in keep : \A j \in keep : k <= j,
                       CHOOSE k \in keep : \A j \in keep : k >= j)

\* s.split("<<")", "[", "0", "]", " ", "i", "f", " ">>" in s else s
LocalPart(s) ==
    IF "@" \in Range(s)
    THEN SubSeq(s, 1, (CHOOSE k \in 1..Len(s) :
                          s[k] = "@" /\ \A j \in 1..(k - 1) : s[j] # "@") - 1)
    ELSE s

\* str(n) for n >= 0
RECURSIVE DecStr(_)
DecStr(n) ==
    IF n < 10 THEN <<DigitChars[n + 1]>>
    ELSE DecStr(n \div 10) \o <<DigitChars[(n % 10) + 1]>>

(***************************************************************************)
(* Username normaliser and service-account classifier.                     *)
(***************************************************************************)
MAX_USERNAME_LEN == 32

\* the characters ALLOWED_USERNAME_RE = [^A-Za-z0-9._-] does not match
AllowedChars ==
    Range(UpperChars) \cup Range(LowerChars) \cup Range(DigitChars)
        \cup {".", "_", "-"}

IsAllowed(c) == c \in AllowedChars

normalize_username_noCut(r) ==
    IF r = << >> THEN << >> ELSE SelectSeq(r, IsAllowed)

normalize_username(r) ==
    IF r = << >> THEN << >>
    ELSE Take(SelectSeq(r, IsAllowed), MAX_USERNAME_LEN)

build_username_emailFirst(u) ==
    LET local == normalize_username(LocalPart(u.userPrincipalName))
    IN  IF local # << >> THEN local
        ELSE normalize_username(Strip(u.employeeId))

build_username(u) ==
    LET empid == Strip(u.employeeId)
        candidate == normalize_username(empid)
        local == LocalPart(u.userPrincipalName)
    IN  IF empid # << >> /\ candidate # << >> THEN candidate
        ELSE normalize_username(local)

\* the argument of the last normalize_username call build_username makes
build_username_raw(u) ==
    LET empid == Strip(u.employeeId)
    IN  IF empid # << >> /\ normalize_username(empid) # << >> THEN empid
        ELSE LocalPart(u.userPrincipalName)

service_patterns ==
    << <<"-", "a", "d", "m", "i", "n">>, <<"-", "s", "e", "r", "v", "i", "c", "e">>, <<"-", "c", "l", "u", "s", "t", "e", "r">>, <<"-", "s", "y", "n", "c">>, <<"-", "b", "o", "t">>,
       <<"-", "s", "v", "c">>, <<"s", "y", "s", "t", "e", "m", "-">>, <<"s", "e", "r", "v", "i", "c", "e", "-">>, <<"n", "o", "r", "e", "p", "l", "y">>, <<"n", "o", "-", "r", "e", "p", "l", "y">>,
       <<"a", "u", "t", "o", "m", "a", "t", "e", "d">> >>

is_service_account_nameOnly(uname, displayname) ==
    LET username_lower == Lower(uname)
    IN  \E k \in 1..Len(service_patterns) :
            Contains(username_lower, service_patterns[k])

is_service_account(uname, displayname) ==
    LET username_lower == Lower(uname)
        displayname_lower == Lower(displayname)
    IN  \E k \in 1..Len(service_patterns) :
            \/ Contains(username_lower, service_patterns[k])
            \/ Contains(displayname_lower, service_patterns[k])

(***************************************************************************)
(* transform_collaborators (xone-sync.py) / transform                      *)
(* (xone-sync-collaborators.py): the two bodies are the same code.         *)
(***************************************************************************)
Rep(c, n) == [k \in 1..n |-> c]

DirUser(upn, display, enabled, dept, empid) ==
    [userPrincipalName |-> upn, displayName |-> display,
     accountEnabled |-> enabled, department |-> dept, employeeId |-> empid]

\* Directory users the input lists are drawn from: an employee id, an email
\* local part with a dot and an underscore, an employee id that needs stripping
\* and filtering, one longer than MAX_USERNAME_LEN after a character the
\* normaliser drops, one that yields the empty
\* username, one whose username is the first generated name, service accounts
\* recognised by display name and by email, and one whose directory
\* department is the text of a sentinel.
UserPool ==
    { DirUser(<<"a", "n", "a", "@", "c", "o", "r", "p", ".", "c", "o", "m">>, <<"A", "n", "a">>, TRUE, <<"T", "I">>, <<"E", "1">>),
      DirUser(<<"j", "a", "n", "e", ".", "d", "o", "e", "_", "2", "@", "c", "o", "r", "p", ".", "c", "o", "m">>, <<"J", "a", "n", "e", " ", "D", "o", "e">>, TRUE, << >>, << >>),
      DirUser(<<"h", "e", "l", "p", "@", "c", "o", "r", "p", ".", "c", "o", "m">>, <<"S", "e", "r", "v", "i", "c", "e", "-", "D", "e", "s", "k">>, TRUE, <<"T", "I">>, <<" ", "E", "#", "1", " ">>),
      DirUser(<<"l", "o", "n", "g", "@", "c", "o", "r", "p", ".", "c", "o", "m">>, <<"L", "o", "n", "g">>, TRUE, <<"R", "H">>,
              <<"#">> \o Rep("x", 33)),
      DirUser(<< >>, <<"B", "l", "a", "n", "k">>, FALSE, << >>, <<" ", " ">>),
      DirUser(<<"u", "s", "e", "r", "-", "1", "@", "c", "o", "r", "p", ".", "c", "o", "m">>, <<"U", " ", "O", "n", "e">>, FALSE, <<"R", "H">>, <<"#">>),
      DirUser(<<"x", "-", "S", "V", "C", "@", "c", "o", "r", "p", ".", "c", "o", "m">>, <<"J", "o", "b">>, TRUE, << >>, << >>),
      DirUser(<<"s", "o", "l", "@", "c", "o", "r", "p", ".", "c", "o", "m">>, <<"S", "o", "l">>, TRUE, <<"S", "e", "m", " ", "D", "e", "p", "a", "r", "t", "a", "m", "e", "n", "t", "o">>, << >>),
      DirUser(<<"e", "v", "a", "@", "c", "o", "r", "p", ".", "c", "o", "m">>, <<"E", "v", "a">>, TRUE, << >>, <<"E", "1">>) }

SEM_DEPARTAMENTO == <<"S", "e", "m", " ", "D", "e", "p", "a", "r", "t", "a", "m", "e", "n", "t", "o">>
CONTA_DE_SERVICO == <<"C", "o", "n", "t", "a", " ", "d", "e", " ", "S", "e", "r", "v", "i", "ç", "o">>
JORNADA_PADRAO == <<"J", "o", "r", "n", "a", "d", "a", " ", "p", "a", "d", "r", "ã", "o">>
NA == <<"N", "/", "A">>

ListsOf(pool, n) == UNION {[1..k -> pool] : k \in 0..n}

collides_emptyOnly(uname, seen) == uname = << >>

\* loop condition of the while statement
collides(uname, seen) == uname \in seen \/ uname = << >>

suffixed_noCut(b, n) == b \o <<"-">> \o DecStr(n)

\* f"{base[:MAX_USERNAME_LEN-3]}-{suffix}"[:MAX_USERNAME_LEN]
suffixed(b, n) ==
    Take(Take(b, MAX_USERNAME_LEN - 3) \o <<"-">> \o DecStr(n),
         MAX_USERNAME_LEN)

default_department_same(department, service) ==
    IF department = << >> THEN SEM_DEPARTAMENTO ELSE department

\* the department written to the record
default_department(department, service) ==
    IF department = << >> /\ ~service THEN SEM_DEPARTAMENTO
    ELSE IF department = << >> /\ service THEN CONTA_DE_SERVICO
    ELSE department

collaborator_record(u, uname, service) ==
    [username |-> uname,
     displayname |-> u.displayName,
     status |-> u.accountEnabled,
     department |-> default_department(u.department, service),
     workingday |-> IF ~service THEN JORNADA_PADRAO ELSE NA,
     email |-> u.userPrincipalName]

Init ==
    /\ flow = "transform_collaborators"
    /\ pc = "for"
    /\ users_msgraph \in ListsOf(UserPool, MaxUsers)
    /\ exclude_service_accounts \in BOOLEAN
    /\ exclude_without_department \in BOOLEAN
    /\ i = 1
    /\ username = << >>
    /\ base = << >>
    /\ suffix = 1
    /\ seen_usernames = {}
    /\ out = << >>
    /\ raw = << >>
    /\ norm = << >>
    /\ users = << >>
    /\ departments = << >>
    /\ users_data = << >>
    /\ dry_run = FALSE
    /\ XONE_API_TOKEN = TRUE
    /\ idx = 0
    /\ posts = << >>
    /\ successful = 0
    /\ failed = 0
    /\ errors = << >>
    /\ result = [status |-> "none"]
    /\ NetIdle

\* for u in users_msgraph: username = build_username(u); base; suffix = 1
ForUser ==
    /\ flow = "transform_collaborators"
    /\ pc = "for"
    /\ i <= Len(users_msgraph)
    /\ LET u == users_msgraph[i]
       IN  /\ raw' = build_username_raw(u)
           /\ norm' = normalize_username(build_username_raw(u))
           /\ username' = build_username(u)
           /\ base' = IF build_username(u) # << >> THEN build_username(u)
                      ELSE <<"u", "s", "e", "r">>
    /\ suffix' = 1
    /\ pc' = "while"
    /\ UNCHANGED <<flow, users_msgraph, exclude_service_accounts,
                   exclude_without_department, i, seen_usernames, out>>
    /\ UNCHANGED deptVars
    /\ UNCHANGED sendVars
    /\ UNCHANGED netVars

\* one iteration of: while username in seen_usernames or not username
WhileCollision ==
    /\ flow = "transform_collaborators"
    /\ pc = "while"
    /\ collides(username, seen_usernames)
    /\ suffix < MaxSuffix
    /\ username' = suffixed(base, suffix)
    /\ suffix' = suffix + 1
    /\ UNCHANGED <<flow, pc, users_msgraph, exclude_service_accounts,
                   exclude_without_department, i, base, seen_usernames, out,
                   raw, norm>>
    /\ UNCHANGED deptVars
    /\ UNCHANGED sendVars
    /\ UNCHANGED netVars

Reserved_emittedOnly ==
    /\ flow = "transform_collaborators"
    /\ pc = "while"
    /\ ~collides(username, seen_usernames)
    /\ LET u == users_msgraph[i]
           dropped ==
              \/ /\ exclude_service_accounts
                 /\ is_service_account(u.userPrincipalName, u.displayName)
              \/ exclude_without_department /\ u.department = << >>
       IN  seen_usernames' = IF dropped THEN seen_usernames
                             ELSE seen_usernames \cup {username}
    /\ i' = i + 1
    /\ pc' = "for"
    /\ UNCHANGED <<flow, users_msgraph, exclude_service_accounts,
                   exclude_without_department, username, base, suffix, raw,
                   norm>>
    /\ UNCHANGED deptVars
    /\ UNCHANGED sendVars
    /\ UNCHANGED netVars

\* the rest of the loop body, common part: the username is reserved
Reserved ==
    /\ flow = "transform_collaborators"
    /\ pc = "while"
    /\ ~collides(username, seen_usernames)
    /\ seen_usernames' = seen_usernames \cup {username}
    /\ i' = i + 1
    /\ pc' = "for"
    /\ UNCHANGED <<flow, users_msgraph, exclude_service_accounts,
                   exclude_without_department, username, base, suffix, raw,
                   norm>>
    /\ UNCHANGED deptVars
    /\ UNCHANGED sendVars
    /\ UNCHANGED netVars

service_of(u) == is_service_account(u.userPrincipalName, u.displayName)

\* if exclude_service_accounts and service: continue
SkipServiceAccount ==
    /\ Reserved
    /\ exclude_service_accounts /\ service_of(users_msgraph[i])
    /\ out' = out

\* if exclude_without_department and not department: continue
SkipWithoutDepartment ==
    /\ Reserved
    /\ ~(exclude_service_accounts /\ service_of(users_msgraph[i]))
    /\ exclude_without_department /\ users_msgraph[i].department = << >>
    /\ out' = out

Emit_first ==
    /\ Reserved
    /\ ~(exclude_service_accounts /\ service_of(users_msgraph[i]))
    /\ ~(exclude_without_department /\ users_msgraph[i].department = << >>)
    /\ out' = <<collaborator_record(users_msgraph[i], username,
                                    service_of(users_msgraph[i]))>> \o out

\* out.append({...})
Emit ==
    /\ Reserved
    /\ ~(exclude_service_accounts /\ service_of(users_msgraph[i]))
    /\ ~(exclude_without_department /\ users_msgraph[i].department = << >>)
    /\ out' = Append(out, collaborator_record(users_msgraph[i], username,
                                              service_of(users_msgraph[i])))

\* return out
ReturnOut ==
    /\ flow = "transform_collaborators"
    /\ pc = "for"
    /\ i > Len(users_msgraph)
    /\ pc' = "done"
    /\ UNCHANGED <<flow>>
    /\ UNCHANGED collabVars
    /\ UNCHANGED deptVars
    /\ UNCHANGED sendVars
    /\ UNCHANGED netVars

Next ==
    \/ ForUser
    \/ WhileCollision
    \/ SkipServiceAccount
    \/ SkipWithoutDepartment
    \/ Emit
    \/ ReturnOut

Spec == Init /\ [][Next]_vars

(***************************************************************************)
(* Properties of transform_collaborators.                                  *)
(***************************************************************************)
MatchesServicePattern(s) ==
    LET lowered == Lower(s)
    IN  \E k \in 1..Len(service_patterns) :
            Contains(lowered, service_patterns[k])

\* the user is dropped by one of the two exclusion filters
Excluded(u) ==
    \/ /\ exclude_service_accounts
       /\ \/ MatchesServicePattern(u.userPrincipalName)
          \/ MatchesServicePattern(u.displayName)
    \/ exclude_without_department /\ u.department = << >>

IsKept(k) == ~Excluded(users_msgraph[k])

\* indices of the non-excluded users among the first n, in input order
KeptUpTo(n) == SelectSeq([k \in 1..n |-> k], IsKept)

\* the users whose loop iteration is complete
Processed == i - 1

\* the number of allowed characters among the first j of s
AllowedBefore(s, j) == Cardinality({m \in 1..j : s[m] \in AllowedChars})

\* C1: the records emitted by transform_collaborators have pairwise distinct
\* usernames, for every input list and every setting of the two flags.
C1_UsernamesDistinct ==
    \A a, b \in 1..Len(out) : a # b => out[a].username # out[b].username

\* two users with the same built username were both emitted
C1_Witness ==
    /\ pc = "done"
    /\ \E a, b \in 1..Len(KeptUpTo(Len(users_msgraph))) :
          /\ a < b
          /\ build_username(users_msgraph[KeptUpTo(Len(users_msgraph))[a]])
               = build_username(users_msgraph[KeptUpTo(Len(users_msgraph))[b]])
          /\ Len(out) >= b

\* C2: every emitted username, suffixed or not, has at most MAX_USERNAME_LEN
\* characters, all of [A-Za-z0-9._-]; of two emitted users that normalize to
\* the same username the second one's username differs from the first one's.
C2_UsernamesWellFormed ==
    /\ \A k \in 1..Len(out) :
          /\ Len(out[k].username) <= MAX_USERNAME_LEN
          /\ Range(out[k].username) \subseteq AllowedChars
    /\ \A a, b \in 1..Len(out) :
          (a < b /\ build_username(users_msgraph[KeptUpTo(Processed)[a]])
                     = build_username(users_msgraph[KeptUpTo(Processed)[b]]))
              => out[b].username # out[a].username

\* a base of full length was suffixed and emitted
C2_Witness ==
    /\ pc = "done"
    /\ \E k \in 1..Len(out) :
          /\ Len(build_username(users_msgraph[KeptUpTo(Processed)[k]]))
               = MAX_USERNAME_LEN
          /\ out[k].username
               # build_username(users_msgraph[KeptUpTo(Processed)[k]])

\* C3: normalize_username returns the allowed characters of its argument, in
\* their original order, cut to the first MAX_USERNAME_LEN: only characters
\* of [A-Za-z0-9._-] and length at most MAX_USERNAME_LEN.
C3_NormalizeResult ==
    /\ Range(norm) \subseteq AllowedChars
    /\ Len(norm) <= MAX_USERNAME_LEN
    /\ Len(norm) = Min(MAX_USERNAME_LEN, AllowedBefore(raw, Len(raw)))
    /\ \A j \in 1..Len(raw) :
          (raw[j] \in AllowedChars /\ AllowedBefore(raw, j) <= MAX_USERNAME_LEN)
              => norm[AllowedBefore(raw, j)] = raw[j]

\* an argument with a dropped character and more allowed ones than fit
C3_Witness ==
    /\ pc = "while"
    /\ Range(raw) \ AllowedChars # {}
    /\ AllowedBefore(raw, Len(raw)) > MAX_USERNAME_LEN
    /\ Len(norm) = MAX_USERNAME_LEN

\* C4: build_username returns the normalized employee identifier whenever
\* that is non-empty, whatever the principal email; the normalized email
\* local part is returned only otherwise.
C4_UsernamePriority ==
    (pc = "while" /\ suffix = 1) =>
        LET u == users_msgraph[i]
        IN  IF u.employeeId # << >> /\ normalize_username(u.employeeId) # << >>
            THEN username = normalize_username(u.employeeId)
            ELSE username = normalize_username(LocalPart(u.userPrincipalName))

\* an identifier that needs stripping wins over a usable email local part
C4_Witness ==
    /\ pc = "while" /\ suffix = 1
    /\ users_msgraph[i].employeeId # Strip(users_msgraph[i].employeeId)
    /\ username = normalize_username(users_msgraph[i].employeeId)
    /\ normalize_username(LocalPart(users_msgraph[i].userPrincipalName))
         \notin {<< >>, username}

\* C7: with exclude_service_accounts set, no emitted record belongs to a user
\* whose principal email or display name contains, case-insensitively, one
\* of the service patterns.
C7_NoServiceAccounts ==
    exclude_service_accounts =>
        \A k \in 1..Len(out) :
            /\ ~MatchesServicePattern(out[k].email)
            /\ ~MatchesServicePattern(out[k].displayname)

\* a user matched by display name only was dropped, another was emitted
C7_Witness ==
    /\ pc = "done"
    /\ exclude_service_accounts
    /\ Len(out) >= 1
    /\ \E k \in 1..Len(users_msgraph) :
          /\ Contains(Lower(users_msgraph[k].displayName), <<"s", "e", "r", "v", "i", "c", "e", "-">>)
          /\ ~MatchesServicePattern(users_msgraph[k].userPrincipalName)

\* the department of record k is the directory value if its user has one,
\* else the sentinel that the user's classification selects
DepartmentOf(k) ==
    LET u == users_msgraph[KeptUpTo(Processed)[k]]
        service == \/ MatchesServicePattern(u.userPrincipalName)
                   \/ MatchesServicePattern(u.displayName)
    IN  /\ out[k].department # << >>
        /\ u.department # << >> => out[k].department = u.department
        /\ (u.department = << >> /\ ~service)
               => out[k].department = SEM_DEPARTAMENTO
        /\ (u.department = << >> /\ service)
               => out[k].department = CONTA_DE_SERVICO

\* C8 (as stated): every emitted record has a non-empty department: the
\* directory value if the user has one, else "Sem Departamento" for a user
\* not classified as a service account and "Conta de Serviço" for one that
\* is; with exclude_without_department set no record carries either sentinel.
C8_Original ==
    \A k \in 1..Len(out) :
        /\ DepartmentOf(k)
        /\ exclude_without_department
               => out[k].department \notin {SEM_DEPARTAMENTO, CONTA_DE_SERVICO}

\* C8 (amended): as above, except that with exclude_without_department set
\* every record carries its user's own directory value: the text of a
\* sentinel appears only where it is itself the directory value.
C8_DepartmentDefaulted ==
    \A k \in 1..Len(out) :
        /\ DepartmentOf(k)
        /\ exclude_without_department
               => /\ users_msgraph[KeptUpTo(Processed)[k]].department # << >>
                  /\ out[k].department
                        = users_msgraph[KeptUpTo(Processed)[k]].department

\* both sentinels were written in one run
C8_Witness ==
    /\ pc = "done"
    /\ \E a, b \in 1..Len(out) :
          /\ out[a].department = SEM_DEPARTAMENTO
          /\ out[b].department = CONTA_DE_SERVICO

\* C9: the emitted records are the non-excluded users, one record each, in
\* the relative order of the input list.
C9_OrderPreserved ==
    /\ Len(out) = Len(KeptUpTo(Processed))
    /\ \A k \in 1..Len(out) :
          LET u == users_msgraph[KeptUpTo(Processed)[k]]
          IN  /\ out[k].email = u.userPrincipalName
              /\ out[k].displayname = u.displayName
              /\ out[k].status = u.accountEnabled

\* a user between two emitted ones was dropped
C9_Witness ==
    /\ pc = "done"
    /\ Len(users_msgraph) = 3
    /\ KeptUpTo(3) = <<1, 3>>
    /\ Len(out) = 2
    /\ out[1].email # out[2].email

(***************************************************************************)
(* transform_to_departments (xone-sync.py; the body of                     *)
(* xone-sync-departamento-clean.py computes the same list).                *)
(***************************************************************************)
MANAGER_NAME == <<"M", "a", "n", "a", "g", "e", "r", " ", "N", "a", "m", "e">>
MANAGER_EMAIL == <<"m", "a", "n", "a", "g", "e", "r", ".", "e", "m", "a", "i", "l", "@", "a", "r", "c", "t", "i", "c", "a", ".", "c", "o", "m", ".", "b", "r">>

\* a manager dict: the keys it holds and the values of the two selected ones
Manager(keys, display, upn) ==
    [keys |-> keys, displayName |-> display, userPrincipalName |-> upn]

NoManager == Manager({}, << >>, << >>)
FullKeys == {"id", "displayName", "userPrincipalName"}

DeptUser(upn, dept, manager) ==
    [userPrincipalName |-> upn, department |-> dept, manager |-> manager]

\* Users of two departments and of none; managers that are absent, complete,
\* without a principal name, without a display name, and named like the
\* placeholder.
DeptUserPool ==
    { DeptUser(<<"a", "n", "a", "@", "c", "o", "r", "p", ".", "c", "o", "m">>, <<"T", "I">>, NoManager),
      DeptUser(<<"b", "i", "a", "@", "c", "o", "r", "p", ".", "c", "o", "m">>, <<"T", "I">>,
               Manager(FullKeys, <<"B", "o", "b">>, <<"b", "o", "b", "@", "c", "o", "r", "p", ".", "c", "o", "m">>)),
      DeptUser(<<"c", "a", "i", "o", "@", "c", "o", "r", "p", ".", "c", "o", "m">>, <<"T", "I">>,
               Manager({"id", "displayName"}, <<"E", "v", "a">>, << >>)),
      DeptUser(<<"d", "a", "n">>, << >>,
               Manager(FullKeys, <<"B", "o", "b">>, <<"b", "o", "b", "@", "c", "o", "r", "p", ".", "c", "o", "m">>)),
      DeptUser(<<"e", "d", "u", "@", "c", "o", "r", "p", ".", "c", "o", "m">>, <<"R", "H">>,
               Manager({"id", "userPrincipalName"}, << >>, <<"g", "u", "e", "s", "t", "@", "c", "o", "r", "p", ".", "c", "o", "m">>)),
      DeptUser(<<"f", "a", "b", "i", "@", "c", "o", "r", "p", ".", "c", "o", "m">>, <<"R", "H">>,
               Manager(FullKeys, MANAGER_NAME, <<"m", "n", "@", "c", "o", "r", "p", ".", "c", "o", "m">>)),
      DeptUser(<<"g", "i", "l">>, <<"R", "H">>,
               Manager(FullKeys, <<"E", "v", "a">>, <<"e", "v", "a", "@", "c", "o", "r", "p", ".", "c", "o", "m">>)) }

\* manager_info.get(key, default) if manager_info else default
manager_name(m) ==
    IF m.keys # {} /\ "displayName" \in m.keys THEN m.displayName
    ELSE MANAGER_NAME

manager_email(m) ==
    IF m.keys # {} /\ "userPrincipalName" \in m.keys THEN m.userPrincipalName
    ELSE MANAGER_EMAIL

has_department_never(name) == FALSE

\* department in departments
has_department(name) == \E k \in 1..Len(departments) : departments[k].name = name

slot(name) == CHOOSE k \in 1..Len(departments) : departments[k].name = name

department_entry(user) ==
    [name |-> user.department,
     manager |-> manager_name(user.manager),
     manager_email |-> manager_email(user.manager),
     workingday_name |-> "None",
     user_name |-> LocalPart(user.userPrincipalName)]

manager_still_empty_never(entry, name) == FALSE

\* departments[department]["manager"] == "Manager Name" and
\* manager_name != "Manager Name"
manager_still_empty(entry, name) ==
    entry.manager = MANAGER_NAME /\ name # MANAGER_NAME

InitDept ==
    /\ flow = "transform_to_departments"
    /\ pc = "for"
    /\ users \in ListsOf(DeptUserPool, MaxUsers)
    /\ departments = << >>
    /\ i = 1
    /\ users_msgraph = << >>
    /\ exclude_service_accounts = TRUE
    /\ exclude_without_department = FALSE
    /\ username = << >>
    /\ base = << >>
    /\ suffix = 1
    /\ seen_usernames = {}
    /\ out = << >>
    /\ raw = << >>
    /\ norm = << >>
    /\ users_data = << >>
    /\ dry_run = FALSE
    /\ XONE_API_TOKEN = TRUE
    /\ idx = 0
    /\ posts = << >>
    /\ successful = 0
    /\ failed = 0
    /\ errors = << >>
    /\ result = [status |-> "none"]
    /\ NetIdle

\* the loop statement of transform_to_departments, at user i
DeptFor ==
    /\ flow = "transform_to_departments"
    /\ pc = "for"
    /\ i <= Len(users)
    /\ i' = i + 1
    /\ UNCHANGED <<flow, pc, users, users_msgraph, exclude_service_accounts,
                   exclude_without_department, username, base, suffix,
                   seen_usernames, out, raw, norm>>
    /\ UNCHANGED sendVars
    /\ UNCHANGED netVars

\* if not department: continue
DeptSkip ==
    /\ DeptFor
    /\ users[i].department = << >>
    /\ departments' = departments

\* if department not in departments: departments[department] = {...}
DeptCreate ==
    /\ DeptFor
    /\ users[i].department # << >>
    /\ ~has_department(users[i].department)
    /\ departments' = Append(departments, department_entry(users[i]))

\* else: the manager is still the placeholder and this user supplies one
DeptUpdateManager ==
    /\ DeptFor
    /\ users[i].department # << >>
    /\ has_department(users[i].department)
    /\ LET k == slot(users[i].department)
       IN  /\ manager_still_empty(departments[k], manager_name(users[i].manager))
           /\ departments' =
                 [departments EXCEPT
                    ![k].manager = manager_name(users[i].manager),
                    ![k].manager_email = manager_email(users[i].manager)]

\* else: nothing to update
DeptKeep ==
    /\ DeptFor
    /\ users[i].department # << >>
    /\ has_department(users[i].department)
    /\ ~manager_still_empty(departments[slot(users[i].department)],
                            manager_name(users[i].manager))
    /\ departments' = departments

\* return list(departments.values())
DeptReturn ==
    /\ flow = "transform_to_departments"
    /\ pc = "for"
    /\ i > Len(users)
    /\ pc' = "done"
    /\ UNCHANGED <<flow>>
    /\ UNCHANGED collabVars
    /\ UNCHANGED deptVars
    /\ UNCHANGED sendVars
    /\ UNCHANGED netVars

NextDept ==
    \/ DeptSkip
    \/ DeptCreate
    \/ DeptUpdateManager
    \/ DeptKeep
    \/ DeptReturn

SpecDept == InitDept /\ [][NextDept]_vars

(***************************************************************************)
(* Properties of transform_to_departments.                                 *)
(***************************************************************************)
First(S) == CHOOSE k \in S : \A j \in S : k <= j

\* the users of a department, by index
Members(name) == {k \in 1..Len(users) : users[k].department = name}

\* the members whose record supplies a manager name other than the placeholder
WithManager(name) ==
    {k \in Members(name) :
        /\ users[k].manager.keys # {}
        /\ "displayName" \in users[k].manager.keys
        /\ users[k].manager.displayName # MANAGER_NAME}

\* the members who have a manager record
HasManager(name) == {k \in Members(name) : users[k].manager.keys # {}}

\* C5 (as stated): the manager and manager_email of every department entry
\* are those of the first user of the department, in input order, who has a
\* manager; the placeholder manager remains only when no user of the
\* department has one.
C5_Original ==
    pc = "done" =>
        \A e \in 1..Len(departments) :
            LET name == departments[e].name
            IN  IF HasManager(name) # {}
                THEN LET m == users[First(HasManager(name))].manager
                     IN  /\ departments[e].manager = manager_name(m)
                         /\ departments[e].manager_email = manager_email(m)
                ELSE /\ departments[e].manager = MANAGER_NAME
                     /\ departments[e].manager_email = MANAGER_EMAIL

\* C5 (amended): the manager and manager_email of every department entry are
\* those of the first user of the department, in input order, whose manager
\* record supplies a display name other than the placeholder "Manager Name";
\* the placeholder name remains only when no user of the department does.
C5_FirstManagerWins ==
    pc = "done" =>
        \A e \in 1..Len(departments) :
            LET name == departments[e].name
            IN  IF WithManager(name) # {}
                THEN LET m == users[First(WithManager(name))].manager
                     IN  /\ departments[e].manager = m.displayName
                         /\ departments[e].manager_email =
                               IF "userPrincipalName" \in m.keys
                               THEN m.userPrincipalName ELSE MANAGER_EMAIL
                ELSE departments[e].manager = MANAGER_NAME

\* three users of one department, only the second of them with a manager
C5_Witness ==
    /\ pc = "done"
    /\ Len(users) = 3
    /\ Members(users[1].department) = {1, 2, 3}
    /\ users[1].department # << >>
    /\ WithManager(users[1].department) = {2}
    /\ users[1].manager = NoManager /\ users[3].manager = NoManager
    /\ departments[1].manager = users[2].manager.displayName
    /\ departments[1].manager_email = users[2].manager.userPrincipalName

\* C6: the returned list has exactly one entry for each distinct non-empty
\* department value among the input users, none for users without a
\* department, and no two entries of the same name.
C6_OneEntryPerDepartment ==
    pc = "done" =>
        /\ {departments[e].name : e \in 1..Len(departments)}
             = {users[k].department : k \in 1..Len(users)} \ {<< >>}
        /\ \A a, b \in 1..Len(departments) :
              a # b => departments[a].name # departments[b].name

\* two users of one department and a user without any give one entry
C6_Witness ==
    /\ pc = "done"
    /\ Len(departments) = 1
    /\ \E k \in 1..Len(users) : users[k].department = << >>
    /\ \E a, b \in 1..Len(users) :
          /\ a # b
          /\ users[a] # users[b]
          /\ users[a].department = departments[1].name
          /\ users[b].department = departments[1].name

(***************************************************************************)
(* send_collaborators_to_api (xone-sync.py).                               *)
(***************************************************************************)
\* Collaborator records the lists to send are drawn from.
SendPool ==
    { collaborator_record(
          DirUser(<<"a", "n", "a", "@", "c", "o", "r", "p", ".", "c", "o", "m">>, <<"A", "n", "a">>, TRUE, <<"T", "I">>, <<"E", "1">>),
          <<"E", "1">>, FALSE),
      collaborator_record(
          DirUser(<<"x", "-", "S", "V", "C", "@", "c", "o", "r", "p", ".", "c", "o", "m">>, <<"J", "o", "b">>, FALSE, << >>, << >>),
          <<"x", "-", "S", "V", "C">>, TRUE) }

\* What requests.post can come back with: a response of some status, or a
\* requests.exceptions.RequestException raised by the transport.
StatusCodes == {200, 204, 404, 500}

HttpOutcomes ==
    {[kind |-> "response", status |-> s] : s \in StatusCodes}
        \cup {[kind |-> "RequestException", status |-> 0]}

\* response.raise_for_status() raises HTTPError, a RequestException
raises_for_status(o) == o.kind = "response" /\ o.status >= 400 /\ o.status < 600

\* the try block of a POST ends in the except clause
post_failed(o) == o.kind = "RequestException" \/ raises_for_status(o)

\* s[a:b]
Slice(s, a, b) == SubSeq(s, a + 1, Min(b, Len(s)))

build_payload(batch) ==
    [k \in 1..Len(batch) |->
        [username |-> batch[k].username,
         displayname |-> batch[k].displayname,
         status |-> batch[k].status,
         department |-> batch[k].department,
         workingday |-> batch[k].workingday,
         email |-> batch[k].email]]

batch_of_short(data, at) == Slice(data, at, at + COLLAB_BATCH_SIZE - 1)

\* users_data[idx : idx + COLLAB_BATCH_SIZE]
batch_of(data, at) == Slice(data, at, at + COLLAB_BATCH_SIZE)

\* int(math.ceil(total / COLLAB_BATCH_SIZE))
total_batches(total) == (total + COLLAB_BATCH_SIZE - 1) \div COLLAB_BATCH_SIZE

InitSend ==
    /\ flow = "send_collaborators_to_api"
    /\ pc = "call"
    /\ users_data \in ListsOf(SendPool, MaxSend)
    /\ dry_run \in BOOLEAN
    /\ XONE_API_TOKEN \in BOOLEAN
    /\ idx = 0
    /\ posts = << >>
    /\ successful = 0
    /\ failed = 0
    /\ errors = << >>
    /\ result = [status |-> "none"]
    /\ users_msgraph = << >>
    /\ exclude_service_accounts = TRUE
    /\ exclude_without_department = FALSE
    /\ i = 1
    /\ username = << >>
    /\ base = << >>
    /\ suffix = 1
    /\ seen_usernames = {}
    /\ out = << >>
    /\ raw = << >>
    /\ norm = << >>
    /\ users = << >>
    /\ departments = << >>
    /\ NetIdle

SendFrame ==
    /\ flow = "send_collaborators_to_api"
    /\ UNCHANGED <<flow, users_data, dry_run, XONE_API_TOKEN>>
    /\ UNCHANGED collabVars
    /\ UNCHANGED deptVars
    /\ UNCHANGED netVars

\* if not XONE_API_TOKEN: raise RuntimeError
SendNoToken ==
    /\ SendFrame
    /\ pc = "call"
    /\ ~XONE_API_TOKEN
    /\ result' = [status |-> "RuntimeError"]
    /\ pc' = "done"
    /\ UNCHANGED <<idx, posts, successful, failed, errors>>

\* if not users_data: return {"status": "noop", "users_count": 0}
SendNoop ==
    /\ SendFrame
    /\ pc = "call"
    /\ XONE_API_TOKEN
    /\ users_data = << >>
    /\ result' = [status |-> "noop", users_count |-> 0]
    /\ pc' = "done"
    /\ UNCHANGED <<idx, posts, successful, failed, errors>>

\* if dry_run: return {"status": "dry_run", "users_count": total}
SendDryRun ==
    /\ SendFrame
    /\ pc = "call"
    /\ XONE_API_TOKEN
    /\ users_data # << >>
    /\ dry_run
    /\ result' = [status |-> "dry_run", users_count |-> Len(users_data)]
    /\ pc' = "done"
    /\ UNCHANGED <<idx, posts, successful, failed, errors>>

\* if total <= COLLAB_BATCH_SIZE: one POST with the full list
SendSingle ==
    /\ SendFrame
    /\ pc = "call"
    /\ XONE_API_TOKEN
    /\ users_data # << >>
    /\ ~dry_run
    /\ Len(users_data) <= COLLAB_BATCH_SIZE
    /\ \E o \in HttpOutcomes :
          /\ posts' = Append(posts, [payload |-> build_payload(users_data),
                                     outcome |-> o])
          /\ result' = IF post_failed(o)
                       THEN [status |-> "error"]
                       ELSE [status |-> "success",
                             successful |-> Len(users_data)]
    /\ pc' = "done"
    /\ UNCHANGED <<idx, successful, failed, errors>>

\* successful = 0; failed = 0; errors = []; the for loop starts at idx 0
SendBegin ==
    /\ SendFrame
    /\ pc = "call"
    /\ XONE_API_TOKEN
    /\ users_data # << >>
    /\ ~dry_run
    /\ Len(users_data) > COLLAB_BATCH_SIZE
    /\ successful' = 0
    /\ failed' = 0
    /\ errors' = << >>
    /\ idx' = 0
    /\ pc' = "for"
    /\ UNCHANGED <<posts, result>>

SendBatch_abort ==
    /\ SendFrame
    /\ pc = "for"
    /\ idx < Len(users_data)
    /\ LET batch == batch_of(users_data, idx)
           batch_number == (idx \div COLLAB_BATCH_SIZE) + 1
       IN  \E o \in HttpOutcomes :
              /\ posts' = Append(posts, [payload |-> build_payload(batch),
                                         outcome |-> o])
              /\ IF post_failed(o)
                 THEN /\ failed' = failed + Len(users_data) - idx
                      /\ errors' = Append(errors, batch_number)
                      /\ successful' = successful
                      /\ idx' = Len(users_data)
                 ELSE /\ successful' = successful + Len(batch)
                      /\ idx' = idx + COLLAB_BATCH_SIZE
                      /\ UNCHANGED <<failed, errors>>
    /\ UNCHANGED <<pc, result>>

\* one iteration of: for idx in range(0, total, COLLAB_BATCH_SIZE)
SendBatch ==
    /\ SendFrame
    /\ pc = "for"
    /\ idx < Len(users_data)
    /\ LET batch == batch_of(users_data, idx)
           batch_number == (idx \div COLLAB_BATCH_SIZE) + 1
       IN  \E o \in HttpOutcomes :
              /\ posts' = Append(posts, [payload |-> build_payload(batch),
                                         outcome |-> o])
              /\ IF post_failed(o)
                 THEN /\ failed' = failed + Len(batch)
                      /\ errors' = Append(errors, batch_number)
                      /\ successful' = successful
                 ELSE /\ successful' = successful + Len(batch)
                      /\ UNCHANGED <<failed, errors>>
    /\ idx' = idx + COLLAB_BATCH_SIZE
    /\ UNCHANGED <<pc, result>>

\* after the loop: partial_error if failed, else success
SendFinish ==
    /\ SendFrame
    /\ pc = "for"
    /\ idx >= Len(users_data)
    /\ result' = IF failed # 0
                 THEN [status |-> "partial_error", successful |-> successful,
                       failed |-> failed, errors |-> Take(errors, 3)]
                 ELSE [status |-> "success", successful |-> successful]
    /\ pc' = "done"
    /\ UNCHANGED <<idx, posts, successful, failed, errors>>

NextSend ==
    \/ SendNoToken
    \/ SendNoop
    \/ SendDryRun
    \/ SendSingle
    \/ SendBegin
    \/ SendBatch
    \/ SendFinish

SpecSend == InitSend /\ [][NextSend]_vars

(***************************************************************************)
(* Properties of send_collaborators_to_api.                                *)
(***************************************************************************)
RECURSIVE Concat(_)
Concat(ps) ==
    IF ps = << >> THEN << >> ELSE Head(ps).payload \o Concat(Tail(ps))

\* the dispatch is live and needs more than one call
LiveBatched ==
    XONE_API_TOKEN /\ ~dry_run /\ Len(users_data) > COLLAB_BATCH_SIZE

\* C10: a live send of N > COLLAB_BATCH_SIZE records posts
\* ceil(N / COLLAB_BATCH_SIZE) payloads whose concatenation in call order is
\* the input list; every payload has COLLAB_BATCH_SIZE records except the
\* last, which has between 1 and COLLAB_BATCH_SIZE.
C10_Batching ==
    (pc = "done" /\ LiveBatched) =>
        LET N == Len(users_data)
            calls == Len(posts)
        IN  /\ calls * COLLAB_BATCH_SIZE >= N
            /\ (calls - 1) * COLLAB_BATCH_SIZE < N
            /\ Concat(posts) = users_data
            /\ \A k \in 1..(calls - 1) :
                  Len(posts[k].payload) = COLLAB_BATCH_SIZE
            /\ Len(posts[calls].payload) \in 1..COLLAB_BATCH_SIZE

\* two full payloads and a shorter last one, as 12,000 records in batches of
\* 5,000 give
C10_Witness ==
    /\ pc = "done" /\ LiveBatched
    /\ Len(posts) = 3
    /\ Len(posts[1].payload) = COLLAB_BATCH_SIZE
    /\ Len(posts[2].payload) = COLLAB_BATCH_SIZE
    /\ Len(posts[3].payload) < COLLAB_BATCH_SIZE
    /\ posts[1].payload # posts[2].payload

\* the k-th chunk of the input list, in input order
Chunk(k) ==
    SubSeq(users_data, (k - 1) * COLLAB_BATCH_SIZE + 1,
           Min(k * COLLAB_BATCH_SIZE, Len(users_data)))

Chunks == (Len(users_data) + COLLAB_BATCH_SIZE - 1) \div COLLAB_BATCH_SIZE

FailedPosts == {k \in 1..Len(posts) : post_failed(posts[k].outcome)}

FieldOr(r, f, d) == IF f \in DOMAIN r THEN r[f] ELSE d

\* C11: in batched dispatch a failed chunk (HTTP error status or transport
\* error) never stops the dispatch: every later chunk is still posted, each
\* chunk exactly once, and the outcome's successful and failed counts add up
\* to the number of input records.
C11_FailuresDoNotStop ==
    (flow = "send_collaborators_to_api" /\ LiveBatched) =>
        /\ pc = "for" =>
              /\ Len(posts) * COLLAB_BATCH_SIZE = idx
              /\ \A k \in 1..Len(posts) : posts[k].payload = Chunk(k)
        /\ pc = "done" =>
              /\ Len(posts) = Chunks
              /\ \A k \in 1..Chunks : posts[k].payload = Chunk(k)
              /\ FieldOr(result, "successful", 0) + FieldOr(result, "failed", 0)
                    = Len(users_data)

\* the first chunk failed by status, the second by transport, the third went
\* through
C11_Witness ==
    /\ flow = "send_collaborators_to_api" /\ LiveBatched
    /\ pc = "done"
    /\ Len(posts) = 3
    /\ raises_for_status(posts[1].outcome)
    /\ posts[2].outcome.kind = "RequestException"
    /\ ~post_failed(posts[3].outcome)
    /\ result.status = "partial_error"
    /\ result.successful = Len(posts[3].payload)

\* C12: the outcome is partial_error exactly when some batches succeeded and
\* some failed; a dispatch in which every request failed gives error, one in
\* which none failed gives success.
C12_Original ==
    (flow = "send_collaborators_to_api" /\ pc = "done" /\ posts # << >>) =>
        /\ result.status = "partial_error"
              <=> (FailedPosts # {} /\ FailedPosts # 1..Len(posts))
        /\ FailedPosts = 1..Len(posts) => result.status = "error"
        /\ FailedPosts = {} => result.status = "success"

(***************************************************************************)
(* send_departments_to_api (xone-sync.py).                                 *)
(***************************************************************************)
\* longest department list handed to send_departments_to_api
MaxDepts == 2

\* Department entries the lists to send are drawn from.
DeptEntryPool ==
    { department_entry(DeptUser(<<"b", "i", "a", "@", "c", "o", "r", "p", ".", "c", "o", "m">>, <<"T", "I">>,
                                Manager(FullKeys, <<"B", "o", "b">>, <<"b", "o", "b", "@", "c", "o", "r", "p", ".", "c", "o", "m">>))),
      department_entry(DeptUser(<<"d", "a", "n", "@", "c", "o", "r", "p", ".", "c", "o", "m">>, <<"R", "H">>, NoManager)) }

\* payload = {"lang": "pt-BR", "departments": departments}
envelope(depts) == [lang |-> "pt-BR", departments |-> depts]

\* resp.status_code in [200, 201]
accepted(o) == o.kind = "response" /\ o.status \in {200, 201}

InitSendDept ==
    /\ flow = "send_departments_to_api"
    /\ pc = "call"
    /\ departments \in ListsOf(DeptEntryPool, MaxDepts)
    /\ dry_run \in BOOLEAN
    /\ XONE_API_TOKEN \in BOOLEAN
    /\ NetIdle
    /\ users = << >>
    /\ users_data = << >>
    /\ idx = 0
    /\ posts = << >>
    /\ successful = 0
    /\ failed = 0
    /\ errors = << >>
    /\ result = [status |-> "none"]
    /\ users_msgraph = << >>
    /\ exclude_service_accounts = TRUE
    /\ exclude_without_department = FALSE
    /\ i = 1
    /\ username = << >>
    /\ base = << >>
    /\ suffix = 1
    /\ seen_usernames = {}
    /\ out = << >>
    /\ raw = << >>
    /\ norm = << >>

SendDeptFrame ==
    /\ flow = "send_departments_to_api"
    /\ pc = "call"
    /\ pc' = "done"
    /\ UNCHANGED <<flow, users_data, dry_run, XONE_API_TOKEN, idx, posts,
                   successful, failed, errors>>
    /\ UNCHANGED collabVars
    /\ UNCHANGED deptVars
    /\ UNCHANGED <<tokenVars, fetchVars, mainVars>>

\* if not XONE_API_TOKEN: raise RuntimeError
SendDeptNoToken ==
    /\ SendDeptFrame
    /\ ~XONE_API_TOKEN
    /\ result' = [status |-> "RuntimeError"]
    /\ UNCHANGED dept_posts

\* if dry_run: return {"status": "dry_run", "departments_count": len(departments)}
SendDeptDryRun ==
    /\ SendDeptFrame
    /\ XONE_API_TOKEN
    /\ dry_run
    /\ result' = [status |-> "dry_run", departments_count |-> Len(departments)]
    /\ UNCHANGED dept_posts

\* the try block: one POST of the envelope; 200 and 201 are success, any
\* other status and any RequestException are an error outcome
SendDeptPost ==
    /\ SendDeptFrame
    /\ XONE_API_TOKEN
    /\ ~dry_run
    /\ \E o \in HttpOutcomes :
          /\ dept_posts' = Append(dept_posts, [payload |-> envelope(departments),
                                               outcome |-> o])
          /\ result' =
                IF accepted(o)
                THEN [status |-> "success",
                      successful |-> Len(departments), failed |-> 0]
                ELSE [status |-> "error",
                      error |-> IF o.kind = "response" THEN <<"HTTP", o.status>>
                                ELSE <<"Conexão">>,
                      successful |-> 0, failed |-> Len(departments)]

NextSendDept ==
    \/ SendDeptNoToken
    \/ SendDeptDryRun
    \/ SendDeptPost

\* either dispatcher of xone-sync.py, called once
InitDispatch == InitSend \/ InitSendDept

NextDispatch == NextSend \/ NextSendDept

SpecDispatch == InitDispatch /\ [][NextDispatch]_vars

Dispatching == flow \in {"send_collaborators_to_api", "send_departments_to_api"}

\* C13: with the dry-run flag set and the token configured, neither
\* dispatcher performs an HTTP request and both return the status "dry_run",
\* for every input list, the empty list included.
C13_Original ==
    (Dispatching /\ dry_run /\ XONE_API_TOKEN) =>
        /\ posts = << >>
        /\ dept_posts = << >>
        /\ pc = "done" => result.status = "dry_run"

\* the response status is non-2xx
Non2xx(o) == o.kind = "response" /\ ~(o.status >= 200 /\ o.status < 300)

\* the POSTs the finished dispatch has issued, whichever dispatcher ran
Issued ==
    IF flow = "send_departments_to_api" THEN dept_posts ELSE posts

FullList ==
    IF flow = "send_departments_to_api" THEN envelope(departments)
    ELSE build_payload(users_data)

\* C19: a live dispatch that fits one call (collaborators: a non-empty list
\* of at most COLLAB_BATCH_SIZE records; departments: any list) issues
\* exactly one POST carrying the full list, and its outcome is error exactly
\* when the response status is non-2xx or the transport failed, success
\* otherwise.
C19_Original ==
    ( /\ Dispatching /\ pc = "done" /\ XONE_API_TOKEN /\ ~dry_run
      /\ flow = "send_collaborators_to_api" =>
            (users_data # << >> /\ Len(users_data) <= COLLAB_BATCH_SIZE) ) =>
        /\ Len(Issued) = 1
        /\ Issued[1].payload = FullList
        /\ LET o == Issued[1].outcome
           IN  IF Non2xx(o) \/ o.kind = "RequestException"
               THEN result.status = "error"
               ELSE result.status = "success"

(***************************************************************************)
(* get_access_token (xone-sync.py; xone-sync-collaborators.py has the same *)
(* loop with the credentials test inline).                                 *)
(***************************************************************************)
\* default of the retries parameter
retries == 3

TokenStatusCodes == {200, 401, 500}

\* What the n-th token request can come back with.  The body of a 200
\* response either has the key access_token or lacks it, the body of an
\* error response lacks it; the token a response carries names the request
\* it answers, so that tokens of different requests differ.
TokenOutcomes(n) ==
    {[kind |-> "response", status |-> s, access_token |-> << >>] :
        s \in TokenStatusCodes}
        \cup {[kind |-> "response", status |-> 200, access_token |-> <<n>>],
              [kind |-> "RequestException", status |-> 0, access_token |-> << >>]}

\* the try block reaches its return: raise_for_status passes and
\* resp.json()["access_token"] exists
token_returned(o) ==
    /\ o.kind = "response"
    /\ ~raises_for_status(o)
    /\ o.access_token # << >>

\* what except Exception binds to last_err
exception_of(o) ==
    IF o.kind = "RequestException" THEN "RequestException"
    ELSE IF raises_for_status(o) THEN "HTTPError"
    ELSE "KeyError"

in_range_inclusive(n) == n <= retries

\* for i in range(retries): the loop has an iteration for i
in_range(n) == n < retries

\* ensure_azure_credentials: missing is non-empty
missing_credentials == ~TENANT_ID \/ ~CLIENT_ID \/ ~CLIENT_SECRET

InitToken ==
    /\ flow = "get_access_token"
    /\ pc = "call"
    /\ TENANT_ID \in BOOLEAN
    /\ CLIENT_ID \in BOOLEAN
    /\ CLIENT_SECRET \in BOOLEAN
    /\ token_posts = << >>
    /\ last_err = "None"
    /\ i = 0
    /\ result = [status |-> "none"]
    /\ dept_posts = << >>
    /\ graph_pages = << >>
    /\ only_enabled = FALSE
    /\ url = << >>
    /\ all_users = << >>
    /\ gets = << >>
    /\ program = "xone-sync.py"
    /\ config = << >>
    /\ main_pc = "none"
    /\ token = << >>
    /\ users = << >>
    /\ departments = << >>
    /\ users_data = << >>
    /\ dry_run = FALSE
    /\ XONE_API_TOKEN = TRUE
    /\ idx = 0
    /\ posts = << >>
    /\ successful = 0
    /\ failed = 0
    /\ errors = << >>
    /\ users_msgraph = << >>
    /\ exclude_service_accounts = TRUE
    /\ exclude_without_department = FALSE
    /\ username = << >>
    /\ base = << >>
    /\ suffix = 1
    /\ seen_usernames = {}
    /\ out = << >>
    /\ raw = << >>
    /\ norm = << >>

TokenFrame ==
    /\ flow = "get_access_token"
    /\ UNCHANGED <<flow, TENANT_ID, CLIENT_ID, CLIENT_SECRET, dept_posts>>
    /\ UNCHANGED <<fetchVars, mainVars>>
    /\ UNCHANGED <<users_msgraph, exclude_service_accounts,
                   exclude_without_department, username, base, suffix,
                   seen_usernames, out, raw, norm>>
    /\ UNCHANGED deptVars
    /\ UNCHANGED <<users_data, dry_run, XONE_API_TOKEN, idx, posts,
                   successful, failed, errors>>

\* ensure_azure_credentials raises RuntimeError
TokenMissingCredentials ==
    /\ TokenFrame
    /\ pc = "call"
    /\ missing_credentials
    /\ result' = [status |-> "RuntimeError",
                  message |-> "Credenciais Azure AD faltando"]
    /\ pc' = "done"
    /\ UNCHANGED <<i, token_posts, last_err>>

\* ensure_azure_credentials returns; last_err = None; the loop starts at 0
TokenEnsured ==
    /\ TokenFrame
    /\ pc = "call"
    /\ ~missing_credentials
    /\ i' = 0
    /\ last_err' = "None"
    /\ pc' = "for"
    /\ UNCHANGED <<token_posts, result>>

\* an iteration whose try block returns the token
TokenReturn ==
    /\ TokenFrame
    /\ pc = "for"
    /\ in_range(i)
    /\ \E o \in TokenOutcomes(Len(token_posts) + 1) :
          /\ token_returned(o)
          /\ token_posts' = Append(token_posts, o)
          /\ result' = [status |-> "returned", value |-> o.access_token]
    /\ pc' = "done"
    /\ UNCHANGED <<i, last_err>>

\* an iteration that ends in the except clause: last_err = e, the backoff
\* sleep, then the next i
TokenRetry ==
    /\ TokenFrame
    /\ pc = "for"
    /\ in_range(i)
    /\ \E o \in TokenOutcomes(Len(token_posts) + 1) :
          /\ ~token_returned(o)
          /\ token_posts' = Append(token_posts, o)
          /\ last_err' = exception_of(o)
    /\ i' = i + 1
    /\ UNCHANGED <<pc, result>>

\* the loop is over: raise RuntimeError(f"Falha ao obter token: {last_err}")
TokenExhausted ==
    /\ TokenFrame
    /\ pc = "for"
    /\ ~in_range(i)
    /\ result' = [status |-> "RuntimeError",
                  message |-> "Falha ao obter token", cause |-> last_err]
    /\ pc' = "done"
    /\ UNCHANGED <<i, token_posts, last_err>>

NextToken ==
    \/ TokenMissingCredentials
    \/ TokenEnsured
    \/ TokenReturn
    \/ TokenRetry
    \/ TokenExhausted

SpecToken == InitToken /\ [][NextToken]_vars

\* the request got a token: a response below 400 whose body has access_token
GotToken(o) ==
    o.kind = "response" /\ o.status < 400 /\ o.access_token # << >>

\* C14: get_access_token issues at most `retries` token requests, returns the
\* token of the first successful request and issues none after it, raises
\* exactly when the credentials are incomplete (then without any request)
\* or every one of the `retries` attempts failed.
C14_TokenRetries ==
    flow = "get_access_token" =>
        /\ Len(token_posts) <= retries
        /\ \A k \in 1..(Len(token_posts) - 1) : ~GotToken(token_posts[k])
        /\ missing_credentials => token_posts = << >>
        /\ pc = "done" =>
              /\ result.status \in {"returned", "RuntimeError"}
              /\ result.status = "returned" =>
                    /\ token_posts # << >>
                    /\ GotToken(token_posts[Len(token_posts)])
                    /\ result.value = token_posts[Len(token_posts)].access_token
              /\ result.status = "RuntimeError" <=>
                    \/ missing_credentials
                    \/ /\ Len(token_posts) = retries
                       /\ \A k \in 1..retries : ~GotToken(token_posts[k])

\* two failed attempts, a transport failure and an error status, then the
\* token of the third request
C14_Witness ==
    /\ flow = "get_access_token" /\ pc = "done"
    /\ Len(token_posts) = 3
    /\ token_posts[1].kind = "RequestException"
    /\ token_posts[2].status = 500
    /\ result = [status |-> "returned", value |-> <<3>>]

(***************************************************************************)
(* fetch_users_with_manager and fetch_all_users (xone-sync.py;             *)
(* fetch_all_users of xone-sync-collaborators.py has the same loop).       *)
(***************************************************************************)
\* most pages a directory serves
MaxPages == 3

\* defaults of the locals of routines a run is not in
CollabIdle ==
    /\ users_msgraph = << >>
    /\ exclude_service_accounts = TRUE
    /\ exclude_without_department = FALSE
    /\ username = << >>
    /\ base = << >>
    /\ suffix = 1
    /\ seen_usernames = {}
    /\ out = << >>
    /\ raw = << >>
    /\ norm = << >>

DeptIdle ==
    /\ users = << >>
    /\ departments = << >>

SendIdle ==
    /\ users_data = << >>
    /\ dry_run = FALSE
    /\ XONE_API_TOKEN = TRUE
    /\ idx = 0
    /\ posts = << >>
    /\ successful = 0
    /\ failed = 0
    /\ errors = << >>
    /\ dept_posts = << >>

TokenIdle ==
    /\ TENANT_ID = TRUE
    /\ CLIENT_ID = TRUE
    /\ CLIENT_SECRET = TRUE
    /\ token_posts = << >>
    /\ last_err = "None"

\* "value" lists a page of the collaborator query can carry
UserPageValues ==
    { << >>,
      << DirUser(<<"a", "n", "a", "@", "c", "o", "r", "p", ".", "c", "o", "m">>, <<"A", "n", "a">>, TRUE, <<"T", "I">>, <<"E", "1">>) >>,
      << DirUser(<<"x", "-", "S", "V", "C", "@", "c", "o", "r", "p", ".", "c", "o", "m">>, <<"J", "o", "b">>, FALSE, << >>, << >>),
         DirUser(<<"s", "o", "l", "@", "c", "o", "r", "p", ".", "c", "o", "m">>, <<"S", "o", "l">>, TRUE, <<"S", "e", "m", " ", "D", "e", "p", "a", "r", "t", "a", "m", "e", "n", "t", "o">>, << >>) >>,
      << DirUser(<<"u", "s", "e", "r", "-", "1", "@", "c", "o", "r", "p", ".", "c", "o", "m">>, <<"U", " ", "O", "n", "e">>, FALSE, <<"R", "H">>, <<"#">>) >> }

\* "value" lists a page of the manager query can carry
ManagerPageValues ==
    { << >>,
      << DeptUser(<<"b", "i", "a", "@", "c", "o", "r", "p", ".", "c", "o", "m">>, <<"T", "I">>,
                  Manager(FullKeys, <<"B", "o", "b">>, <<"b", "o", "b", "@", "c", "o", "r", "p", ".", "c", "o", "m">>)) >>,
      << DeptUser(<<"d", "a", "n", "@", "c", "o", "r", "p", ".", "c", "o", "m">>, << >>, NoManager),
         DeptUser(<<"g", "i", "l", "@", "c", "o", "r", "p", ".", "c", "o", "m">>, <<"R", "H">>,
                  Manager(FullKeys, <<"E", "v", "a">>, <<"e", "v", "a", "@", "c", "o", "r", "p", ".", "c", "o", "m">>)) >> }

\* "@odata.nextLink" of each of n pages: absent (0) or the url of a later page
Links(n) == {l \in [1..n -> 0..n] : \A k \in 1..n : l[k] = 0 \/ l[k] > k}

\* the directories of up to MaxPages pages; the query's first url is page 1
Directories(values) ==
    UNION { { [k \in 1..n |->
                 [value |-> v[k],
                  nextLink |-> IF l[k] = 0 THEN << >> ELSE <<l[k]>>]] :
              v \in [1..n -> values], l \in Links(n) } : n \in 1..MaxPages }

GetStatusCodes == {200, 401, 403, 500}

\* What requests.get can come back with.
GetOutcomes ==
    {[kind |-> "response", status |-> s] : s \in GetStatusCodes}
        \cup {[kind |-> "RequestException", status |-> 0]}

\* the page the directory serves at a url
page_at(u) == graph_pages[u[1]]

next_url_none(data) == << >>

\* data.get("@odata.nextLink")
next_url(data) == data.nextLink

\* [u for u in batch if u.get("accountEnabled") is True]
enabled_only(batch) == SelectSeq(batch, LAMBDA u : u.accountEnabled = TRUE)

\* r.status_code in [401, 403]
permission_denied(o) == o.kind = "response" /\ o.status \in {401, 403}

FetchFrame ==
    /\ UNCHANGED <<flow, graph_pages, only_enabled, dept_posts, i>>
    /\ UNCHANGED <<users_msgraph, exclude_service_accounts,
                   exclude_without_department, username, base, suffix,
                   seen_usernames, out, raw, norm>>
    /\ UNCHANGED deptVars
    /\ UNCHANGED <<users_data, dry_run, XONE_API_TOKEN, idx, posts,
                   successful, failed, errors>>
    /\ UNCHANGED <<tokenVars, mainVars>>

\* main is not running: the routine was called on its own
MainIdle ==
    /\ program = "xone-sync.py"
    /\ config = << >>
    /\ main_pc = "none"
    /\ token = << >>

InitFetchUsers ==
    /\ flow = "fetch_all_users"
    /\ pc = "while"
    /\ graph_pages \in Directories(UserPageValues)
    /\ only_enabled \in BOOLEAN
    /\ url = <<1>>
    /\ all_users = << >>
    /\ gets = << >>
    /\ result = [status |-> "none"]
    /\ i = 1
    /\ CollabIdle /\ DeptIdle /\ SendIdle /\ TokenIdle /\ MainIdle

InitFetchManagers ==
    /\ flow = "fetch_users_with_manager"
    /\ pc = "while"
    /\ graph_pages \in Directories(ManagerPageValues)
    /\ only_enabled = FALSE
    /\ url = <<1>>
    /\ all_users = << >>
    /\ gets = << >>
    /\ result = [status |-> "none"]
    /\ i = 1
    /\ CollabIdle /\ DeptIdle /\ SendIdle /\ TokenIdle /\ MainIdle

\* ---- fetch_users_with_manager
\* an iteration of while url: the page arrives with a status that
\* raise_for_status accepts
ManagersPage ==
    /\ FetchFrame
    /\ flow = "fetch_users_with_manager"
    /\ pc = "while"
    /\ url # << >>
    /\ \E o \in GetOutcomes :
          /\ o.kind = "response" /\ ~raises_for_status(o)
          /\ gets' = Append(gets, [query |-> flow, url |-> url, outcome |-> o])
    /\ all_users' = all_users \o page_at(url).value
    /\ url' = next_url(page_at(url))
    /\ UNCHANGED <<pc, result>>

\* requests.get raises, or resp.raise_for_status() raises HTTPError: the
\* function has no handler, the exception leaves it
ManagersRaise ==
    /\ FetchFrame
    /\ flow = "fetch_users_with_manager"
    /\ pc = "while"
    /\ url # << >>
    /\ \E o \in GetOutcomes :
          /\ o.kind = "RequestException" \/ raises_for_status(o)
          /\ gets' = Append(gets, [query |-> flow, url |-> url, outcome |-> o])
          /\ result' = IF o.kind = "RequestException"
                       THEN [status |-> "RequestException"]
                       ELSE [status |-> "HTTPError", http |-> o.status]
    /\ pc' = "done"
    /\ UNCHANGED <<url, all_users>>

\* url is None: return all_users
ManagersReturn ==
    /\ FetchFrame
    /\ flow = "fetch_users_with_manager"
    /\ pc = "while"
    /\ url = << >>
    /\ result' = [status |-> "returned", value |-> all_users]
    /\ pc' = "done"
    /\ UNCHANGED <<url, all_users, gets>>

\* ---- fetch_all_users
UsersPage ==
    /\ FetchFrame
    /\ flow = "fetch_all_users"
    /\ pc = "while"
    /\ url # << >>
    /\ \E o \in GetOutcomes :
          /\ o.kind = "response" /\ ~permission_denied(o) /\ ~raises_for_status(o)
          /\ gets' = Append(gets, [query |-> flow, url |-> url, outcome |-> o])
    /\ LET batch == page_at(url).value
       IN  all_users' = all_users \o
                           (IF only_enabled THEN enabled_only(batch) ELSE batch)
    /\ url' = next_url(page_at(url))
    /\ UNCHANGED <<pc, result>>

\* if r.status_code in [401, 403]: raise RuntimeError("Permissões insuficientes ...")
UsersPermissionDenied ==
    /\ FetchFrame
    /\ flow = "fetch_all_users"
    /\ pc = "while"
    /\ url # << >>
    /\ \E o \in GetOutcomes :
          /\ permission_denied(o)
          /\ gets' = Append(gets, [query |-> flow, url |-> url, outcome |-> o])
          /\ result' = [status |-> "RuntimeError",
                        message |-> "Permissões insuficientes",
                        http |-> o.status]
    /\ pc' = "done"
    /\ UNCHANGED <<url, all_users>>

\* requests.get raises, or r.raise_for_status() raises HTTPError
UsersRaise ==
    /\ FetchFrame
    /\ flow = "fetch_all_users"
    /\ pc = "while"
    /\ url # << >>
    /\ \E o \in GetOutcomes :
          /\ ~permission_denied(o)
          /\ o.kind = "RequestException" \/ raises_for_status(o)
          /\ gets' = Append(gets, [query |-> flow, url |-> url, outcome |-> o])
          /\ result' = IF o.kind = "RequestException"
                       THEN [status |-> "RequestException"]
                       ELSE [status |-> "HTTPError", http |-> o.status]
    /\ pc' = "done"
    /\ UNCHANGED <<url, all_users>>

\* url is None: return users
UsersReturn ==
    /\ FetchFrame
    /\ flow = "fetch_all_users"
    /\ pc = "while"
    /\ url = << >>
    /\ result' = [status |-> "returned", value |-> all_users]
    /\ pc' = "done"
    /\ UNCHANGED <<url, all_users, gets>>

NextFetchManagers ==
    \/ ManagersPage
    \/ ManagersRaise
    \/ ManagersReturn

NextFetchUsers ==
    \/ UsersPage
    \/ UsersPermissionDenied
    \/ UsersRaise
    \/ UsersReturn

\* either directory read, called once
InitFetch == InitFetchUsers \/ InitFetchManagers

NextFetch == NextFetchManagers \/ NextFetchUsers

SpecFetch == InitFetch /\ [][NextFetch]_vars

Fetching == flow \in {"fetch_all_users", "fetch_users_with_manager"}

\* the records the pages read so far carry, in request order, as the read
\* hands them on
RECURSIVE RecordsOf(_)
RecordsOf(gs) ==
    IF gs = << >> THEN << >>
    ELSE LET v == graph_pages[Head(gs).url[1]].value
         IN  (IF only_enabled
              THEN SelectSeq(v, LAMBDA u : u.accountEnabled)
              ELSE v) \o RecordsOf(Tail(gs))

HasLink(g) == graph_pages[g.url[1]].nextLink # << >>

\* C15: a directory read requests one page at a time, each after the first at
\* the continuation link of the page before it, stops right after the first
\* page that carries no link, and returns the records of all pages read, in
\* page order (only the accountEnabled ones when only_enabled is set).
C15_FollowsLinks ==
    Fetching =>
        /\ gets # << >> => gets[1].url = <<1>>
        /\ \A k \in 2..Len(gets) :
              /\ gets[k - 1].outcome.status = 200
              /\ HasLink(gets[k - 1])
              /\ gets[k].url = graph_pages[gets[k - 1].url[1]].nextLink
        /\ (pc = "done" /\ result.status = "returned") =>
              /\ gets # << >>
              /\ gets[Len(gets)].outcome.status = 200
              /\ ~HasLink(gets[Len(gets)])
              /\ result.value = RecordsOf(gets)

\* two pages were read, the second being the one the first links to and not
\* the one after it, and only_enabled dropped a record of a page read
C15_Witness ==
    /\ flow = "fetch_all_users" /\ pc = "done" /\ only_enabled
    /\ result.status = "returned"
    /\ Len(gets) = 2
    /\ gets[2].url = <<3>>
    /\ Len(result.value) = 2
    /\ \E k \in 1..Len(graph_pages) :
          \E j \in 1..Len(graph_pages[k].value) :
              /\ \E g \in 1..Len(gets) : gets[g].url = <<k>>
              /\ ~graph_pages[k].value[j].accountEnabled

\* C16: every directory read fails on HTTP 401 or 403 with the permissions
\* error, which differs from the error raised for other non-2xx responses,
\* and returns no records.
C16_Original ==
    (Fetching /\ gets # << >>
        /\ gets[Len(gets)].outcome.status \in {401, 403}) =>
        /\ pc = "done"
        /\ result.status = "RuntimeError"
        /\ result.message = "Permissões insuficientes"

(***************************************************************************)
(* main (xone-sync.py).  main calls a routine by setting its parameters    *)
(* and locals and handing control to it (flow, pc); it goes on when the    *)
(* routine is done, and ends at once when the routine raised, since main   *)
(* has no exception handler.  The same steps are those of main of          *)
(* xone-sync.-azure.py, which calls fetch_all_users and                    *)
(* transform_collaborators without keyword arguments and has no            *)
(* TEST_SINGLE_USER slice.                                                 *)
(***************************************************************************)
\* the flags as the script sets them (lines 23-32)
SourceConfig ==
    [ONLY_ENABLED |-> FALSE,
     EXCLUDE_SERVICE_ACCOUNTS |-> TRUE,
     EXCLUDE_WITHOUT_DEPARTMENT |-> TRUE,
     SEND_DEPARTMENTS |-> TRUE,
     DEPT_DRY_RUN |-> FALSE,
     SEND_COLLABORATORS |-> TRUE,
     COLLAB_DRY_RUN |-> FALSE,
     TEST_SINGLE_USER |-> FALSE]

\* the script as it is, a rehearsal, a run without the department dispatch,
\* one without the collaborator dispatch, and a one-user test
Configurations ==
    { SourceConfig,
      [SourceConfig EXCEPT !.DEPT_DRY_RUN = TRUE, !.COLLAB_DRY_RUN = TRUE,
                           !.ONLY_ENABLED = TRUE],
      [SourceConfig EXCEPT !.SEND_DEPARTMENTS = FALSE,
                           !.EXCLUDE_WITHOUT_DEPARTMENT = FALSE],
      [SourceConfig EXCEPT !.SEND_COLLABORATORS = FALSE],
      [SourceConfig EXCEPT !.TEST_SINGLE_USER = TRUE,
                           !.EXCLUDE_SERVICE_ACCOUNTS = FALSE] }

Page(value, link) == [value |-> value, nextLink |-> link]

\* what the directory answers to the manager query of a run
MainManagerDirectories ==
    { << Page(<< DeptUser(<<"b", "i", "a", "@", "c", "o", "r", "p", ".", "c", "o", "m">>, <<"T", "I">>,
                          Manager(FullKeys, <<"B", "o", "b">>, <<"b", "o", "b", "@", "c", "o", "r", "p", ".", "c", "o", "m">>)) >>,
              << >>) >>,
      << Page(<< DeptUser(<<"a", "n", "a", "@", "c", "o", "r", "p", ".", "c", "o", "m">>, <<"T", "I">>, NoManager),
                 DeptUser(<<"d", "a", "n", "@", "c", "o", "r", "p", ".", "c", "o", "m">>, << >>, NoManager) >>,
              <<2>>),
         Page(<< DeptUser(<<"b", "i", "a", "@", "c", "o", "r", "p", ".", "c", "o", "m">>, <<"T", "I">>,
                          Manager(FullKeys, <<"B", "o", "b">>, <<"b", "o", "b", "@", "c", "o", "r", "p", ".", "c", "o", "m">>)),
                 DeptUser(<<"g", "i", "l", "@", "c", "o", "r", "p", ".", "c", "o", "m">>, <<"R", "H">>,
                          Manager(FullKeys, <<"E", "v", "a">>, <<"e", "v", "a", "@", "c", "o", "r", "p", ".", "c", "o", "m">>)),
                 DeptUser(<<"c", "a", "i", "o", "@", "c", "o", "r", "p", ".", "c", "o", "m">>, <<"T", "I">>,
                          Manager(FullKeys, <<"E", "v", "a">>, <<"e", "v", "a", "@", "c", "o", "r", "p", ".", "c", "o", "m">>)) >>,
              << >>) >> }

\* what the directory answers to the collaborator query of a run
MainUserDirectories ==
    { << Page(<< DirUser(<<"x", "-", "S", "V", "C", "@", "c", "o", "r", "p", ".", "c", "o", "m">>, <<"J", "o", "b">>, FALSE, << >>, << >>) >>,
              << >>) >>,
      << Page(<< DirUser(<<"a", "n", "a", "@", "c", "o", "r", "p", ".", "c", "o", "m">>, <<"A", "n", "a">>, TRUE, <<"T", "I">>, <<"E", "1">>) >>,
              << >>) >>,
      << Page(<< DirUser(<<"a", "n", "a", "@", "c", "o", "r", "p", ".", "c", "o", "m">>, <<"A", "n", "a">>, TRUE, <<"T", "I">>, <<"E", "1">>) >>,
              <<2>>),
         Page(<< DirUser(<<"x", "-", "S", "V", "C", "@", "c", "o", "r", "p", ".", "c", "o", "m">>, <<"J", "o", "b">>, FALSE, << >>, << >>),
                 DirUser(<<"s", "o", "l", "@", "c", "o", "r", "p", ".", "c", "o", "m">>, <<"S", "o", "l">>, TRUE,
                         <<"S", "e", "m", " ", "D", "e", "p", "a", "r", "t", "a", "m", "e", "n", "t", "o">>, << >>) >>,
              <<3>>),
         Page(<< DirUser(<<"a", "n", "a", "2", "@", "c", "o", "r", "p", ".", "c", "o", "m">>, <<"A", "n", "a">>, TRUE, <<"R", "H">>, <<"E", "1">>),
                 DirUser(<<"a", "n", "a", "3", "@", "c", "o", "r", "p", ".", "c", "o", "m">>, <<"A", "n", "a">>, TRUE, <<"R", "H">>, <<"E", "1">>) >>,
              << >>) >> }

InitMain ==
    /\ program = "xone-sync.py"
    /\ config \in Configurations
    /\ main_pc = "get_access_token"
    /\ token = << >>
    /\ flow = "get_access_token"
    /\ pc = "call"
    /\ TENANT_ID \in BOOLEAN
    /\ CLIENT_ID \in BOOLEAN
    /\ CLIENT_SECRET \in BOOLEAN
    /\ XONE_API_TOKEN \in BOOLEAN
    /\ token_posts = << >>
    /\ last_err = "None"
    /\ i = 0
    /\ result = [status |-> "none"]
    /\ graph_pages = << >>
    /\ only_enabled = FALSE
    /\ url = << >>
    /\ all_users = << >>
    /\ gets = << >>
    /\ users_data = << >>
    /\ dry_run = FALSE
    /\ idx = 0
    /\ posts = << >>
    /\ successful = 0
    /\ failed = 0
    /\ errors = << >>
    /\ dept_posts = << >>
    /\ CollabIdle /\ DeptIdle

\* the routine main called has returned
Returned(routine) ==
    /\ main_pc = routine
    /\ pc = "done"

\* the value in result is an exception
Raised ==
    result.status \in {"RuntimeError", "HTTPError", "RequestException",
                       "JSONDecodeError"}

\* an exception of the routine main is in leaves main
MainRaised ==
    /\ main_pc \notin {"none", "done", "raised"}
    /\ flow = main_pc
    /\ pc = "done"
    /\ Raised
    /\ main_pc' = "raised"
    /\ UNCHANGED <<flow, pc, dept_posts, program, config, token>>
    /\ UNCHANGED <<collabVars, deptVars, sendVars, tokenVars, fetchVars>>

\* token = get_access_token(); users_for_dept = fetch_users_with_manager(token)
MainFetchManagers ==
    /\ Returned("get_access_token")
    /\ ~Raised
    /\ token' = result.value
    /\ main_pc' = "fetch_users_with_manager"
    /\ flow' = "fetch_users_with_manager"
    /\ pc' = "while"
    /\ graph_pages' \in MainManagerDirectories
    /\ url' = <<1>>
    /\ all_users' = << >>
    /\ UNCHANGED <<only_enabled, gets, dept_posts, program, config>>
    /\ UNCHANGED <<collabVars, deptVars, sendVars, tokenVars>>

\* departments = transform_to_departments(users_for_dept)
MainTransformDepartments ==
    /\ Returned("fetch_users_with_manager")
    /\ ~Raised
    /\ main_pc' = "transform_to_departments"
    /\ flow' = "transform_to_departments"
    /\ pc' = "for"
    /\ users' = result.value
    /\ departments' = << >>
    /\ i' = 1
    /\ UNCHANGED <<users_msgraph, exclude_service_accounts,
                   exclude_without_department, username, base, suffix,
                   seen_usernames, out, raw, norm>>
    /\ UNCHANGED <<dept_posts, program, config, token>>
    /\ UNCHANGED <<sendVars, tokenVars, fetchVars>>

MainSendDepartments_early ==
    /\ Returned("get_access_token")
    /\ ~Raised
    /\ config.SEND_DEPARTMENTS
    /\ main_pc' = "send_departments_to_api"
    /\ flow' = "send_departments_to_api"
    /\ pc' = "call"
    /\ dry_run' = config.DEPT_DRY_RUN
    /\ UNCHANGED <<users_data, XONE_API_TOKEN, idx, posts, successful, failed,
                   errors, result>>
    /\ UNCHANGED <<dept_posts, program, config, token>>
    /\ UNCHANGED <<collabVars, deptVars, tokenVars, fetchVars>>

\* if SEND_DEPARTMENTS:
\*     dept_result = send_departments_to_api(departments, dry_run=DEPT_DRY_RUN)
MainSendDepartments ==
    /\ Returned("transform_to_departments")
    /\ config.SEND_DEPARTMENTS
    /\ main_pc' = "send_departments_to_api"
    /\ flow' = "send_departments_to_api"
    /\ pc' = "call"
    /\ dry_run' = config.DEPT_DRY_RUN
    /\ UNCHANGED <<users_data, XONE_API_TOKEN, idx, posts, successful, failed,
                   errors, result>>
    /\ UNCHANGED <<dept_posts, program, config, token>>
    /\ UNCHANGED <<collabVars, deptVars, tokenVars, fetchVars>>

\* users_raw = fetch_all_users(token, only_enabled=ONLY_ENABLED), after the
\* department dispatch returned or was switched off
MainFetchUsers ==
    /\ \/ Returned("send_departments_to_api") /\ ~Raised
       \/ Returned("transform_to_departments") /\ ~config.SEND_DEPARTMENTS
    /\ main_pc' = "fetch_all_users"
    /\ flow' = "fetch_all_users"
    /\ pc' = "while"
    /\ only_enabled' = IF program = "xone-sync.py" THEN config.ONLY_ENABLED
                       ELSE FALSE
    /\ graph_pages' \in MainUserDirectories
    /\ url' = <<1>>
    /\ all_users' = << >>
    /\ UNCHANGED <<gets, dept_posts, program, config, token>>
    /\ UNCHANGED <<collabVars, deptVars, sendVars, tokenVars>>

\* collaborators = transform_collaborators(users_raw, exclude_service_accounts=
\* EXCLUDE_SERVICE_ACCOUNTS, exclude_without_department=EXCLUDE_WITHOUT_DEPARTMENT)
MainTransformCollaborators ==
    /\ Returned("fetch_all_users")
    /\ ~Raised
    /\ main_pc' = "transform_collaborators"
    /\ flow' = "transform_collaborators"
    /\ pc' = "for"
    /\ users_msgraph' = result.value
    /\ exclude_service_accounts' = config.EXCLUDE_SERVICE_ACCOUNTS
    /\ exclude_without_department' = config.EXCLUDE_WITHOUT_DEPARTMENT
    /\ i' = 1
    /\ username' = << >>
    /\ base' = << >>
    /\ suffix' = 1
    /\ seen_usernames' = {}
    /\ out' = << >>
    /\ raw' = << >>
    /\ norm' = << >>
    /\ UNCHANGED <<dept_posts, program, config, token>>
    /\ UNCHANGED <<deptVars, sendVars, tokenVars, fetchVars>>

\* if SEND_COLLABORATORS:
\*     data_to_send = collaborators[:1] if TEST_SINGLE_USER else collaborators
\*     collab_result = send_collaborators_to_api(data_to_send, dry_run=COLLAB_DRY_RUN)
MainSendCollaborators ==
    /\ Returned("transform_collaborators")
    /\ config.SEND_COLLABORATORS
    /\ main_pc' = "send_collaborators_to_api"
    /\ flow' = "send_collaborators_to_api"
    /\ pc' = "call"
    /\ users_data' = IF program = "xone-sync.py" /\ config.TEST_SINGLE_USER
                     THEN Take(out, 1) ELSE out
    /\ dry_run' = config.COLLAB_DRY_RUN
    /\ idx' = 0
    /\ successful' = 0
    /\ failed' = 0
    /\ errors' = << >>
    /\ UNCHANGED <<XONE_API_TOKEN, posts, result>>
    /\ UNCHANGED <<dept_posts, program, config, token>>
    /\ UNCHANGED <<collabVars, deptVars, tokenVars, fetchVars>>

\* print("Fluxo completo."), after the collaborator dispatch returned or was
\* switched off
MainEnd ==
    /\ \/ Returned("send_collaborators_to_api") /\ ~Raised
       \/ Returned("transform_collaborators") /\ ~config.SEND_COLLABORATORS
    /\ main_pc' = "done"
    /\ UNCHANGED <<flow, pc, dept_posts, program, config, token>>
    /\ UNCHANGED <<collabVars, deptVars, sendVars, tokenVars, fetchVars>>

MainSteps ==
    \/ MainRaised
    \/ MainFetchManagers
    \/ MainTransformDepartments
    \/ MainSendDepartments
    \/ MainFetchUsers
    \/ MainTransformCollaborators
    \/ MainSendCollaborators
    \/ MainEnd

NextMain ==
    \/ MainSteps
    \/ NextToken
    \/ NextFetchManagers
    \/ NextDept
    \/ NextSendDept
    \/ NextFetchUsers
    \/ Next
    \/ NextSend

SpecMain == InitMain /\ [][NextMain]_vars

\* the last page request so far belongs to the query, was answered with the
\* page, and the page carried no continuation link
ReadFinished(query) ==
    /\ gets # << >>
    /\ LET g == gets[Len(gets)]
       IN  /\ g.query = query
           /\ g.outcome.kind = "response" /\ g.outcome.status = 200
           /\ graph_pages[g.url[1]].nextLink = << >>

HttpCalls == Len(token_posts) + Len(gets) + Len(dept_posts) + Len(posts)

\* C17: in main of xone-sync.py no directory page is requested before the
\* token is obtained, no POST of a record type is issued before the paginated
\* read for that type has finished (its last page carried no continuation
\* link), and a step issues at most one HTTP call, each call being over (its
\* outcome known) when the step is.
C17_StepsOrdered ==
    [][ /\ gets' # gets =>
              /\ token_posts # << >>
              /\ GotToken(token_posts[Len(token_posts)])
              /\ token = token_posts[Len(token_posts)].access_token
              /\ token_posts' = token_posts
        /\ dept_posts' # dept_posts => ReadFinished("fetch_users_with_manager")
        /\ posts' # posts => ReadFinished("fetch_all_users")
        /\ HttpCalls' <= HttpCalls + 1 ]_vars

\* a whole run: the token at the second request, both reads over several
\* pages, the departments posted, the collaborators posted in two batches
C17_Witness ==
    /\ program = "xone-sync.py" /\ main_pc = "done"
    /\ Len(token_posts) = 2
    /\ Len(gets) = 5
    /\ Len(dept_posts) = 1
    /\ Len(posts) = 2

(***************************************************************************)
(* xone-sync.-azure.py.  get_access_token and fetch_users_with_manager are *)
(* the code of xone-sync.py; the other routines are modelled here, one     *)
(* loop iteration or one HTTP call at a time.                              *)
(***************************************************************************)
AZURE == "xone-sync.-azure.py"

\* What requests.post followed by resp.json() can come back with: the
\* transport raises, or a response of some status arrives whose body is
\* JSON or is not.
AzurePostOutcomes ==
    {[kind |-> "response", status |-> s, json |-> j] :
        s \in StatusCodes, j \in BOOLEAN}
        \cup {[kind |-> "RequestException", status |-> 0, json |-> FALSE]}

\* resp = requests.post(...); return resp.json() -- no try around either
azure_post_result(o) ==
    IF o.kind = "RequestException" THEN [status |-> "RequestException"]
    ELSE IF ~o.json THEN [status |-> "JSONDecodeError"]
    ELSE [status |-> "returned", value |-> <<"body", o.status>>]

AzureFrame(routine) ==
    /\ program = AZURE
    /\ flow = routine
    /\ UNCHANGED <<flow, XONE_API_TOKEN, dry_run, idx, successful, failed,
                   errors, exclude_service_accounts,
                   exclude_without_department, base, suffix, raw, norm>>
    /\ UNCHANGED <<tokenVars, mainVars, graph_pages, only_enabled>>

\* ---- transform_to_departments: one iteration of for user in users
AzureDeptFor ==
    /\ AzureFrame("transform_to_departments")
    /\ pc = "for"
    /\ i <= Len(users)
    /\ LET user == users[i]
       IN  departments' =
              IF user.department = << >> \/ has_department(user.department)
              THEN departments
              ELSE Append(departments,
                          [name |-> user.department,
                           manager |-> manager_name(user.manager),
                           manager_email |->
                               IF "userPrincipalName" \in user.manager.keys
                               THEN user.manager.userPrincipalName
                               ELSE <<"m", "a", "n", "a", "g", "e", "r", "@", "e", "m", "a", "i", "l">>,
                           workingday_name |-> "None",
                           user_name |-> LocalPart(user.userPrincipalName)])
    /\ i' = i + 1
    /\ UNCHANGED <<pc, result, users, users_msgraph, username, seen_usernames,
                   out, users_data, posts, dept_posts, url, all_users, gets>>

\* ---- send_departments_to_api and send_collaborators_to_api: the token
\* check, the dry run, or the one POST
AzureSendDepartments ==
    /\ AzureFrame("send_departments_to_api")
    /\ pc = "call"
    /\ pc' = "done"
    /\ IF ~XONE_API_TOKEN
       THEN result' = [status |-> "RuntimeError"] /\ dept_posts' = dept_posts
       ELSE IF dry_run
       THEN result' = [status |-> "returned", value |-> <<"dry_run">>]
            /\ dept_posts' = dept_posts
       ELSE \E o \in AzurePostOutcomes :
               /\ dept_posts' = Append(dept_posts,
                                       [payload |-> envelope(departments),
                                        outcome |-> o])
               /\ result' = azure_post_result(o)
    /\ UNCHANGED <<i, users, departments, users_msgraph, username,
                   seen_usernames, out, users_data, posts, url, all_users,
                   gets>>

AzureSendCollaborators ==
    /\ AzureFrame("send_collaborators_to_api")
    /\ pc = "call"
    /\ pc' = "done"
    /\ IF ~XONE_API_TOKEN
       THEN result' = [status |-> "RuntimeError"] /\ posts' = posts
       ELSE IF dry_run
       THEN result' = [status |-> "returned", value |-> <<"dry_run">>]
            /\ posts' = posts
       ELSE \E o \in AzurePostOutcomes :
               /\ posts' = Append(posts, [payload |-> users_data,
                                          outcome |-> o])
               /\ result' = azure_post_result(o)
    /\ UNCHANGED <<i, users, departments, users_msgraph, username,
                   seen_usernames, out, users_data, dept_posts, url,
                   all_users, gets>>

\* ---- fetch_all_users: one iteration of while url, which either takes the
\* page or lets the exception of requests.get / raise_for_status out
AzureUsersPage ==
    /\ AzureFrame("fetch_all_users")
    /\ pc = "while"
    /\ url # << >>
    /\ \E o \in GetOutcomes :
          /\ gets' = Append(gets, [query |-> flow, url |-> url, outcome |-> o])
          /\ IF o.kind = "response" /\ ~raises_for_status(o)
             THEN /\ all_users' = all_users \o page_at(url).value
                  /\ url' = next_url(page_at(url))
                  /\ UNCHANGED <<pc, result>>
             ELSE /\ result' = IF o.kind = "RequestException"
                               THEN [status |-> "RequestException"]
                               ELSE [status |-> "HTTPError", http |-> o.status]
                  /\ pc' = "done"
                  /\ UNCHANGED <<url, all_users>>
    /\ UNCHANGED <<i, users, departments, users_msgraph, username,
                   seen_usernames, out, users_data, posts, dept_posts>>

\* ---- transform_collaborators
\* if username in seen: username = f"{username}-dup"
dup(name, seen) == IF name \in seen THEN name \o <<"-", "d", "u", "p">> ELSE name

\* one iteration of for u in users_msgraph
AzureCollabFor ==
    /\ AzureFrame("transform_collaborators")
    /\ pc = "for"
    /\ i <= Len(users_msgraph)
    /\ LET u == users_msgraph[i]
           name == dup(build_username(u), seen_usernames)
       IN  /\ username' = name
           /\ seen_usernames' = seen_usernames \cup {name}
           /\ out' = Append(out,
                 [username |-> name,
                  displayname |-> u.displayName,
                  status |-> u.accountEnabled,
                  department |-> IF u.department = << >>
                                 THEN SEM_DEPARTAMENTO ELSE u.department,
                  workingday |-> JORNADA_PADRAO,
                  email |-> u.userPrincipalName])
    /\ i' = i + 1
    /\ UNCHANGED <<pc, result, users, departments, users_msgraph, users_data,
                   posts, dept_posts, url, all_users, gets>>

\* the end of a loop: return list(departments.values()) / return users /
\* return out
AzureReturn ==
    /\ \/ /\ AzureFrame("transform_to_departments")
          /\ pc = "for" /\ i > Len(users)
          /\ result' = result
       \/ /\ AzureFrame("transform_collaborators")
          /\ pc = "for" /\ i > Len(users_msgraph)
          /\ result' = result
       \/ /\ AzureFrame("fetch_all_users")
          /\ pc = "while" /\ url = << >>
          /\ result' = [status |-> "returned", value |-> all_users]
    /\ pc' = "done"
    /\ UNCHANGED <<i, users, departments, users_msgraph, username,
                   seen_usernames, out, users_data, posts, dept_posts, url,
                   all_users, gets>>

InitAzure ==
    /\ program = AZURE
    /\ config \in {c \in Configurations : ~c.TEST_SINGLE_USER}
    /\ main_pc = "get_access_token"
    /\ token = << >>
    /\ flow = "get_access_token"
    /\ pc = "call"
    /\ TENANT_ID \in BOOLEAN
    /\ CLIENT_ID \in BOOLEAN
    /\ CLIENT_SECRET \in BOOLEAN
    /\ XONE_API_TOKEN \in BOOLEAN
    /\ token_posts = << >>
    /\ last_err = "None"
    /\ i = 0
    /\ result = [status |-> "none"]
    /\ graph_pages = << >>
    /\ only_enabled = FALSE
    /\ url = << >>
    /\ all_users = << >>
    /\ gets = << >>
    /\ users_data = << >>
    /\ dry_run = FALSE
    /\ idx = 0
    /\ posts = << >>
    /\ successful = 0
    /\ failed = 0
    /\ errors = << >>
    /\ dept_posts = << >>
    /\ CollabIdle /\ DeptIdle

NextAzure ==
    \/ MainSteps
    \/ NextToken
    \/ NextFetchManagers
    \/ AzureDeptFor
    \/ AzureSendDepartments
    \/ AzureUsersPage
    \/ AzureCollabFor
    \/ AzureSendCollaborators
    \/ AzureReturn

SpecAzure == InitAzure /\ [][NextAzure]_vars

\* C18: in the entry points that dispatch both record types, an HTTP error
\* status or a transport failure of the department dispatch is not fatal:
\* main never ends by an exception that leaves send_departments_to_api after
\* its POST was issued, so the run goes on to the collaborator read and
\* dispatch.
C18_Original ==
    ~( /\ main_pc = "raised"
       /\ flow = "send_departments_to_api"
       /\ dept_posts # << >> )

\* C20: in transform_collaborators of xone-sync.-azure.py the usernames
\* emitted in a run are pairwise distinct, for every input list, lists with
\* three or more users of the same normalized username included.
C20_Original ==
    (program = AZURE /\ flow = "transform_collaborators") =>
        \A a, b \in 1..Len(out) : a # b => out[a].username # out[b].username

(***************************************************************************)
(* transform_collaborators on a list of users that all build the same      *)
(* username.                                                               *)
(***************************************************************************)
\* number of users of the list
MaxSharing == 101

\* Users whose username has 2, 10 and 32 characters, and one with neither a
\* department nor a name that passes the service filter.
SharingPool ==
    { DirUser(<<"a", "n", "a", "@", "c", "o", "r", "p", ".", "c", "o", "m">>, <<"A", "n", "a">>, TRUE, <<"T", "I">>, <<"E", "1">>),
      DirUser(<<"j", "a", "n", "e", ".", "d", "o", "e", "_", "2", "@", "c", "o", "r", "p", ".", "c", "o", "m">>, <<"J", "a", "n", "e", " ", "D", "o", "e">>, TRUE, << >>, << >>),
      DirUser(<<"l", "o", "n", "g", "@", "c", "o", "r", "p", ".", "c", "o", "m">>, <<"L", "o", "n", "g">>, TRUE, <<"R", "H">>,
              <<"#">> \o Rep("x", 33)),
      DirUser(<<"x", "-", "S", "V", "C", "@", "c", "o", "r", "p", ".", "c", "o", "m">>, <<"J", "o", "b">>, TRUE, << >>, << >>) }

InitSharing ==
    /\ flow = "transform_collaborators"
    /\ pc = "for"
    /\ users_msgraph \in {Rep(u, MaxSharing) : u \in SharingPool}
    /\ exclude_service_accounts \in BOOLEAN
    /\ exclude_without_department \in BOOLEAN
    /\ i = 1
    /\ username = << >>
    /\ base = << >>
    /\ suffix = 1
    /\ seen_usernames = {}
    /\ out = << >>
    /\ raw = << >>
    /\ norm = << >>
    /\ result = [status |-> "none"]
    /\ DeptIdle /\ SendIdle /\ TokenIdle /\ MainIdle
    /\ graph_pages = << >>
    /\ only_enabled = FALSE
    /\ url = << >>
    /\ all_users = << >>
    /\ gets = << >>

SpecSharing == InitSharing /\ [][Next]_vars

\* C21: the collision loop of transform_collaborators terminates for each
\* user with a username not used before in the run, whatever the length of
\* the base and however many users share it: while the loop is running, a
\* suffix not yet tried gives a candidate that is free.
C21_Original ==
    (flow = "transform_collaborators" /\ pc = "while"
        /\ collides(username, seen_usernames)) =>
        \E n \in suffix..MaxSuffix :
            ~collides(Take(Take(base, MAX_USERNAME_LEN - 3) \o <<"-">> \o DecStr(n),
                           MAX_USERNAME_LEN),
                      seen_usernames)

(***************************************************************************)
(* xone-sync-departamento-clean.py.  The script validates the credentials, *)
(* reads the directory, builds the departments and sends them, all inside  *)
(* one try block whose handler prints the exception.  Its                  *)
(* transform_to_departments builds the list that the one of xone-sync.py   *)
(* builds, and is followed by the actions of that routine.                 *)
(***************************************************************************)
CLEAN == "xone-sync-departamento-clean.py"

\* validate_credentials: raise ValueError when a credential is missing,
\* return True otherwise
CleanValidateCredentials ==
    /\ program = CLEAN
    /\ flow = "validate_credentials"
    /\ pc = "call"
    /\ pc' = "done"
    /\ result' = IF missing_credentials THEN [status |-> "ValueError"]
                 ELSE [status |-> "returned", value |-> TRUE]
    /\ UNCHANGED <<flow, users_data, dry_run, XONE_API_TOKEN, idx, posts,
                   successful, failed, errors, dept_posts>>
    /\ UNCHANGED <<collabVars, deptVars, tokenVars, fetchVars, mainVars>>

\* fetch_users_and_departments, its first lines: token = get_access_token(),
\* which asks once and turns any exception into RuntimeError; then the first
\* url and all_users = []
CleanGetAccessToken ==
    /\ program = CLEAN
    /\ flow = "fetch_users_and_departments"
    /\ pc = "call"
    /\ \E o \in TokenOutcomes(Len(token_posts) + 1) :
          /\ token_posts' = Append(token_posts, o)
          /\ IF token_returned(o)
             THEN /\ token' = o.access_token
                  /\ url' = <<1>>
                  /\ all_users' = << >>
                  /\ pc' = "while"
                  /\ UNCHANGED result
             ELSE /\ result' = [status |-> "RuntimeError",
                                message |-> "Falha ao obter token",
                                cause |-> exception_of(o)]
                  /\ pc' = "done"
                  /\ UNCHANGED <<token, url, all_users>>
    /\ UNCHANGED <<flow, users_data, dry_run, XONE_API_TOKEN, idx, posts,
                   successful, failed, errors, dept_posts>>
    /\ UNCHANGED <<TENANT_ID, CLIENT_ID, CLIENT_SECRET, last_err>>
    /\ UNCHANGED <<graph_pages, only_enabled, gets>>
    /\ UNCHANGED <<program, config, main_pc>>
    /\ UNCHANGED <<collabVars, deptVars>>

\* an iteration of while url: the try block takes the page and its link, or
\* ends in except Exception, which prints the error and breaks
CleanUsersPage ==
    /\ program = CLEAN
    /\ flow = "fetch_users_and_departments"
    /\ pc = "while"
    /\ url # << >>
    /\ \E o \in GetOutcomes :
          /\ gets' = Append(gets, [query |-> flow, url |-> url, outcome |-> o])
          /\ IF o.kind = "response" /\ ~raises_for_status(o)
             THEN /\ all_users' = all_users \o page_at(url).value
                  /\ url' = next_url(page_at(url))
                  /\ pc' = pc
             ELSE /\ pc' = "break"
                  /\ UNCHANGED <<url, all_users>>
    /\ UNCHANGED <<flow, graph_pages, only_enabled, dept_posts>>
    /\ UNCHANGED <<collabVars, deptVars, sendVars, tokenVars, mainVars>>

\* after the loop, left by url = None or by break: return all_users
CleanUsersReturn ==
    /\ program = CLEAN
    /\ flow = "fetch_users_and_departments"
    /\ \/ pc = "while" /\ url = << >>
       \/ pc = "break"
    /\ result' = [status |-> "returned", value |-> all_users]
    /\ pc' = "done"
    /\ UNCHANGED <<flow, users_data, dry_run, XONE_API_TOKEN, idx, posts,
                   successful, failed, errors, dept_posts>>
    /\ UNCHANGED <<collabVars, deptVars, tokenVars, fetchVars, mainVars>>

\* send_departments_to_api: ValueError without the token, the dry run, or
\* the one POST.  200 and 201 are followed by response.json(); what it raises
\* on a body that is not JSON is a RequestException, caught by the except
\* clause, or a plain ValueError, which leaves the function, depending on
\* the version of requests.
CleanSendDepartments ==
    /\ program = CLEAN
    /\ flow = "send_departments_to_api"
    /\ pc = "call"
    /\ pc' = "done"
    /\ IF ~XONE_API_TOKEN
       THEN result' = [status |-> "ValueError"] /\ dept_posts' = dept_posts
       ELSE IF dry_run
       THEN /\ result' = [status |-> "dry_run",
                          departments_count |-> Len(departments)]
            /\ dept_posts' = dept_posts
       ELSE \E o \in AzurePostOutcomes :
               /\ dept_posts' = Append(dept_posts,
                                       [payload |-> envelope(departments),
                                        outcome |-> o])
               /\ LET error(msg) == [status |-> "error", error |-> msg,
                                     successful |-> 0,
                                     failed |-> Len(departments)]
                  IN  result' \in
                        IF accepted(o) /\ o.json
                        THEN {[status |-> "success",
                               successful |-> Len(departments),
                               failed |-> 0]}
                        ELSE IF accepted(o)
                        THEN {error(<<"Conexão">>),
                              [status |-> "JSONDecodeError"]}
                        ELSE IF o.kind = "response"
                        THEN {error(<<"HTTP", o.status>>)}
                        ELSE {error(<<"Conexão">>)}
    /\ UNCHANGED <<flow, users_data, dry_run, XONE_API_TOKEN, idx, posts,
                   successful, failed, errors>>
    /\ UNCHANGED <<collabVars, deptVars, tokenVars, fetchVars, mainVars>>

\* the try block of the script, from one call to the next, and its handler
CleanMain ==
    /\ program = CLEAN
    /\ pc = "done"
    /\ flow = main_pc
    /\ LET raised == result.status \in {"ValueError", "RuntimeError",
                                        "JSONDecodeError"}
       IN  \/ \* except Exception as e: print(f"Erro: {e}")
              /\ main_pc \in {"validate_credentials",
                              "fetch_users_and_departments",
                              "send_departments_to_api"}
              /\ raised
              /\ main_pc' = "except"
              /\ UNCHANGED <<flow, pc, i, users, departments, dry_run>>
           \/ \* users = fetch_users_and_departments()
              /\ main_pc = "validate_credentials"
              /\ ~raised
              /\ main_pc' = "fetch_users_and_departments"
              /\ flow' = "fetch_users_and_departments"
              /\ pc' = "call"
              /\ UNCHANGED <<i, users, departments, dry_run>>
           \/ \* departments = transform_to_departments(users)
              /\ main_pc = "fetch_users_and_departments"
              /\ ~raised
              /\ main_pc' = "transform_to_departments"
              /\ flow' = "transform_to_departments"
              /\ pc' = "for"
              /\ users' = result.value
              /\ departments' = << >>
              /\ i' = 1
              /\ UNCHANGED dry_run
           \/ \* if SEND_TO_API:
              \*     api_result = send_departments_to_api(departments, dry_run=DRY_RUN)
              /\ main_pc = "transform_to_departments"
              /\ config.SEND_TO_API
              /\ main_pc' = "send_departments_to_api"
              /\ flow' = "send_departments_to_api"
              /\ pc' = "call"
              /\ dry_run' = config.DRY_RUN
              /\ UNCHANGED <<i, users, departments>>
           \/ \* the end of the try block
              /\ \/ main_pc = "send_departments_to_api" /\ ~raised
                 \/ main_pc = "transform_to_departments" /\ ~config.SEND_TO_API
              /\ main_pc' = "done"
              /\ UNCHANGED <<flow, pc, i, users, departments, dry_run>>
    /\ UNCHANGED <<users_msgraph, exclude_service_accounts,
                   exclude_without_department, username, base, suffix,
                   seen_usernames, out, raw, norm>>
    /\ UNCHANGED <<users_data, XONE_API_TOKEN, idx, posts, successful, failed,
                   errors, result, dept_posts>>
    /\ UNCHANGED <<program, config, token>>
    /\ UNCHANGED <<tokenVars, fetchVars>>

\* the script as it is started: SEND_TO_API and DRY_RUN as set in the file
\* or switched, the environment with or without each variable, and the
\* directory that will answer the query
InitClean ==
    /\ program = CLEAN
    /\ config \in [SEND_TO_API : BOOLEAN, DRY_RUN : BOOLEAN]
    /\ main_pc = "validate_credentials"
    /\ token = << >>
    /\ flow = "validate_credentials"
    /\ pc = "call"
    /\ TENANT_ID \in BOOLEAN
    /\ CLIENT_ID \in BOOLEAN
    /\ CLIENT_SECRET \in BOOLEAN
    /\ XONE_API_TOKEN \in BOOLEAN
    /\ token_posts = << >>
    /\ last_err = "None"
    /\ i = 0
    /\ result = [status |-> "none"]
    /\ graph_pages \in MainManagerDirectories
    /\ only_enabled = FALSE
    /\ url = << >>
    /\ all_users = << >>
    /\ gets = << >>
    /\ users_data = << >>
    /\ dry_run = FALSE
    /\ idx = 0
    /\ posts = << >>
    /\ successful = 0
    /\ failed = 0
    /\ errors = << >>
    /\ dept_posts = << >>
    /\ CollabIdle /\ DeptIdle

NextClean ==
    \/ CleanMain
    \/ CleanValidateCredentials
    \/ CleanGetAccessToken
    \/ CleanUsersPage
    \/ CleanUsersReturn
    \/ NextDept
    \/ CleanSendDepartments

SpecClean == InitClean /\ [][NextClean]_vars

\* a page request of the read ended in the except clause
FailedPage ==
    \E k \in 1..Len(gets) :
        gets[k].outcome.kind = "RequestException"
            \/ raises_for_status(gets[k].outcome)

\* C22: in xone-sync-departamento-clean.py a failed page request of the
\* directory read leaves fetch_users_and_departments as an error: after a
\* failed request the function does not return a list, and no department
\* list is posted to the target platform.
C22_Original ==
    (program = CLEAN /\ FailedPage) =>
        /\ ~( /\ flow = "fetch_users_and_departments" /\ pc = "done"
              /\ result.status = "returned" )
        /\ dept_posts = << >>

\* the second page of the directory failed and the departments built from
\* the first page alone were posted and accepted
C22_PartialDispatched ==
    /\ program = CLEAN /\ main_pc = "done"
    /\ FailedPage
    /\ Len(graph_pages) = 2 /\ Len(gets) = 2
    /\ Len(dept_posts) = 1
    /\ dept_posts[1].payload.departments # << >>
    /\ result.status = "success"

\* the first candidate of the collision loop for user u
base_of(u) == IF build_username(u) # << >> THEN build_username(u) ELSE <<"u", "s", "e", "r">>

\* an earlier user of the input, dropped by an exclusion filter, has the
\* normalized username of user k
DroppedNamesake(k) ==
    \E m \in 1..(k - 1) :
        /\ Excluded(users_msgraph[m])
        /\ build_username(users_msgraph[m]) = build_username(users_msgraph[k])

\* C23: in transform_collaborators a user dropped by an exclusion filter
\* still reserves its username: every input user whose iteration is over,
\* emitted or not, has added one name to seen_usernames, and a user emitted
\* after a dropped user of the same normalized username carries that
\* username with a "-N" suffix, never the username itself.
C23_DroppedUsersReserve ==
    (program = "xone-sync.py" /\ flow = "transform_collaborators") =>
        /\ Cardinality(seen_usernames) = Processed
        /\ \A j \in 1..Len(out) :
              LET k == KeptUpTo(Processed)[j]
                  u == users_msgraph[k]
              IN  DroppedNamesake(k) =>
                     /\ out[j].username # build_username(u)
                     /\ \E n \in 1..k :
                           out[j].username = suffixed(base_of(u), n)

\* a user without department is dropped, the next user has its employee id:
\* the one record returned is named E1-1 and no record is named E1
C23_Witness ==
    /\ program = "xone-sync.py" /\ flow = "transform_collaborators"
    /\ pc = "done"
    /\ Len(users_msgraph) = 2
    /\ Excluded(users_msgraph[1])
    /\ build_username(users_msgraph[1]) = <<"E", "1">>
    /\ build_username(users_msgraph[2]) = <<"E", "1">>
    /\ Len(out) = 1
    /\ out[1].username = <<"E", "1", "-", "1">>
    /\ seen_usernames = {<<"E", "1">>, <<"E", "1", "-", "1">>}

====
